--------------------------- MODULE NetworkNode_proofs ---------------------------
(***************************************************************************)
(* Networked nodes, for any number of nodes and connections, any           *)
(* transactions, and whatever breaks: a clock covers what its node has     *)
(* applied and claims no commit that was not made, and an update is at     *)
(* every moment in one place on its way to each peer, or lost or refused.  *)
(***************************************************************************)
EXTENDS NetworkNode, Algorithms_proofs

\* The updates that count no more commits of a node than that node has made.
KnownUpdate == {u \in Update : \A m \in NodeId : Time(u.clock, m) <= Time(clock[m], m)}

Stream == [to : NodeId, data : Seq(KnownUpdate), open : BOOLEAN, handling : KnownUpdate \cup {NoUpdate}]

\* Wherever an update is on its way, it is a known one.
UpdatesKnown ==
  /\ clock \in [NodeId -> Clock]
  /\ unsent \subseteq KnownUpdate
  /\ queue \in [Tasks -> Seq(KnownUpdate)]
  /\ committed \in [NodeId -> Seq(KnownUpdate)]
  /\ applied \in [NodeId -> Seq(KnownUpdate)]
  /\ lost \subseteq KnownUpdate \X NodeId
  /\ streams \in Seq(Stream)
  /\ link \in [Tasks -> Nat]
  /\ \A task \in Tasks : link[task] # 0 => link[task] \in DOMAIN streams

\* receive_update merges the clock before the state.
HandledCovered ==
  \A s \in DOMAIN streams :
    streams[s].handling # NoUpdate => Covers(clock[streams[s].to], streams[s].handling.clock)

AppliedCovered ==
  \A n \in NodeId : \A i \in DOMAIN applied[n] : Covers(clock[n], applied[n][i].clock)

ClockInv == UpdatesKnown /\ HandledCovered /\ AppliedCovered /\ ClockBound

LEMMA ClockIsClock == \A c : c \in Clock <=> IsClock(c)
<1>1. ASSUME NEW c \in Clock PROVE IsClock(c)
  BY DEF Clock, IsClock
<1>2. ASSUME NEW c, IsClock(c) PROVE c \in Clock
  <2>1. c \in [DOMAIN c -> Nat] /\ DOMAIN c \in SUBSET NodeId
    BY <1>2 DEF IsClock
  <2> QED
    BY <2>1 DEF Clock
<1> QED
  BY <1>1, <1>2

\* Clocks only grow: what was known stays known.
LEMMA KnownStays ==
  ASSUME clock \in [NodeId -> Clock], clock' \in [NodeId -> Clock],
         \A n \in NodeId : Covers(clock'[n], clock[n])
  PROVE  KnownUpdate \subseteq KnownUpdate'
<1>1. \A n, m \in NodeId : Time(clock[n], m) \in Nat /\ Time(clock'[n], m) \in Nat
  BY ClockIsClock, TimeType
<1>2. \A u \in Update : \A m \in NodeId : Time(u.clock, m) \in Nat
  BY ClockIsClock, TimeType DEF Update
<1>3. \A m \in NodeId : Time(clock[m], m) <= Time(clock'[m], m)
  BY DEF Covers
<1> QED
  BY <1>1, <1>2, <1>3 DEF KnownUpdate

LEMMA SeqStays ==
  ASSUME NEW S, NEW T, S \subseteq T
  PROVE  Seq(S) \subseteq Seq(T)
OBVIOUS

\* A queue that is full loses its oldest for the new one.
LEMMA SendOwn ==
  ASSUME NEW S, queue \in [Tasks -> Seq(S)], NEW u \in S, NEW n \in NodeId, Send(n, u)
  PROVE  queue' \in [Tasks -> Seq(S)] /\ Overwritten(n) \subseteq S \X NodeId
<1>1. ASSUME NEW task \in Tasks
      PROVE  /\ Append(queue[task], u) \in Seq(S)
             /\ Len(queue[task]) = Capacity => /\ Append(Tail(queue[task]), u) \in Seq(S)
                                               /\ Head(queue[task]) \in S
  <2>1. queue[task] \in Seq(S) /\ Capacity \in Nat /\ Capacity # 0
    BY NetworkAssumption
  <2>2. Len(queue[task]) = Capacity => Tail(queue[task]) \in Seq(S) /\ Head(queue[task]) \in S
    BY <2>1
  <2> QED
    BY <2>1, <2>2
<1>2. queue' \in [Tasks -> Seq(S)]
  BY <1>1 DEF Send, Full
<1>3. Overwritten(n) \subseteq S \X NodeId
  BY <1>1 DEF Overwritten, Full, Tasks
<1> QED
  BY <1>2, <1>3

LEMMA ClocksBegin == Init => ClockInv
<1> SUFFICES ASSUME Init PROVE ClockInv
  OBVIOUS
<1>1. EmptyClock \in Clock /\ \A m \in NodeId : Time(EmptyClock, m) = 0
  BY DEF Clock, EmptyClock, Time
<1>2. UpdatesKnown
  BY <1>1 DEF Init, UpdatesKnown
<1>3. ClockBound
  BY <1>1 DEF Init, ClockBound
<1> QED
  BY <1>2, <1>3 DEF Init, ClockInv, HandledCovered, AppliedCovered

\* As long as no clock changes, the known updates are the same.
LEMMA SameClocks ==
  ASSUME UNCHANGED clock
  PROVE  KnownUpdate' = KnownUpdate /\ Stream' = Stream
BY DEF KnownUpdate, Stream

\* The broadcast, and what moves an update out of a queue, leaves the
\* connections alone or appends what it moved to one.
LEMMA BroadcastOwn ==
  ASSUME ClockInv, NEW n \in NodeId, NEW u \in unsent, Broadcast(n, u)
  PROVE  ClockInv'
<1>1. /\ unsent' = unsent \ {u} /\ Send(n, u) /\ u \in KnownUpdate
      /\ lost' = lost \cup Overwritten(n)
      /\ UNCHANGED <<clock, committed, applied, streams, link>>
  BY DEF Broadcast, managerVars, ClockInv, UpdatesKnown
<1>2. queue' \in [Tasks -> Seq(KnownUpdate)] /\ Overwritten(n) \subseteq KnownUpdate \X NodeId
  BY <1>1, SendOwn DEF ClockInv, UpdatesKnown
<1> QED
  BY <1>1, <1>2, SameClocks DEF ClockInv, UpdatesKnown, HandledCovered, AppliedCovered, ClockBound

\* A step that changes connections only in what they carry, which is known.
LEMMA CarryOwn ==
  ASSUME ClockInv, UNCHANGED <<clock, committed, applied, unsent>>,
         queue' \in [Tasks -> Seq(KnownUpdate)],
         lost' \subseteq KnownUpdate \X NodeId,
         streams' \in Seq(Stream), DOMAIN streams' = DOMAIN streams,
         \A s \in DOMAIN streams : streams'[s].to = streams[s].to
                                  /\ streams'[s].handling = streams[s].handling,
         link' \in [Tasks -> Nat],
         \A task \in Tasks : link'[task] \in {0, link[task]}
  PROVE  ClockInv'
<1>1. UpdatesKnown'
  BY SameClocks DEF ClockInv, UpdatesKnown
<1> QED
  BY <1>1 DEF ClockInv, HandledCovered, AppliedCovered, ClockBound

\* A new connection carries and handles nothing.
LEMMA ConnectOwn ==
  ASSUME ClockInv, NEW task \in Tasks, Connect(task)
  PROVE  ClockInv'
<1> DEFINE new == [to |-> task[2], data |-> <<>>, open |-> TRUE, handling |-> NoUpdate]
<1>1. /\ streams' = Append(streams, new) /\ link' = [link EXCEPT ![task] = Len(streams) + 1]
      /\ UNCHANGED <<clock, committed, applied, unsent, queue, lost>>
  BY DEF Connect, managerVars
<1>2. new \in Stream
  BY DEF Stream, Tasks
<1>3. streams \in Seq(Stream) /\ link \in [Tasks -> Nat] /\ Len(streams) + 1 \in Nat
  BY DEF ClockInv, UpdatesKnown
<1>4. /\ streams' \in Seq(Stream) /\ DOMAIN streams' = DOMAIN streams \cup {Len(streams) + 1}
      /\ \A s \in DOMAIN streams : streams'[s] = streams[s]
      /\ streams'[Len(streams) + 1] = new
  BY <1>1, <1>2, <1>3
<1>5. link' \in [Tasks -> Nat] /\ \A t \in Tasks : link'[t] \in {link[t], Len(streams) + 1}
  BY <1>1, <1>3
<1>6. new.handling = NoUpdate
  OBVIOUS
<1> HIDE DEF new
<1>7. UpdatesKnown'
  BY <1>1, <1>4, <1>5, SameClocks DEF ClockInv, UpdatesKnown
<1>8. HandledCovered'
  BY <1>1, <1>4, <1>6 DEF ClockInv, HandledCovered
<1> QED
  BY <1>1, <1>7, <1>8 DEF ClockInv, AppliedCovered, ClockBound

\* handle_peer_connection
LEMMA TaskOwn ==
  ASSUME ClockInv, NEW task \in Tasks,
         SkipForeign(task) \/ Write(task) \/ WriteToBroken(task) \/ Disconnect(task)
  PROVE  ClockInv'
<1>1. /\ streams \in Seq(Stream) /\ queue \in [Tasks -> Seq(KnownUpdate)] /\ link \in [Tasks -> Nat]
      /\ lost \subseteq KnownUpdate \X NodeId
  BY DEF ClockInv, UpdatesKnown
<1>2. ASSUME TakeNext(task)
      PROVE  /\ queue' \in [Tasks -> Seq(KnownUpdate)] /\ UNCHANGED <<clock, committed, applied, unsent>>
             /\ Head(queue[task]) \in KnownUpdate /\ link[task] \in DOMAIN streams
  <2>1. queue[task] \in Seq(KnownUpdate) /\ queue[task] # <<>>
        /\ queue' = [queue EXCEPT ![task] = Tail(@)] /\ UNCHANGED <<clock, committed, applied, unsent>>
        /\ link[task] # 0
    BY <1>1, <1>2 DEF TakeNext, managerVars
  <2>2. Tail(queue[task]) \in Seq(KnownUpdate) /\ Head(queue[task]) \in KnownUpdate
    BY <2>1
  <2> QED
    BY <1>1, <2>1, <2>2 DEF ClockInv, UpdatesKnown
<1>3. CASE SkipForeign(task)
  <2>1. TakeNext(task) /\ UNCHANGED <<streams, link, lost>>
    BY <1>3 DEF SkipForeign
  <2> QED
    BY <1>1, <1>2, <2>1, CarryOwn
<1>4. CASE Write(task)
  <2> DEFINE i == link[task]
             u == Head(queue[task])
  <2>1. TakeNext(task) /\ streams' = [streams EXCEPT ![i].data = Append(@, u)] /\ UNCHANGED <<link, lost>>
    BY <1>4 DEF Write
  <2>2. i \in DOMAIN streams /\ u \in KnownUpdate
    BY <1>2, <2>1
  <2>3. streams[i] \in Stream /\ streams[i].data \in Seq(KnownUpdate)
    <3>1. streams[i] \in Stream
      BY <1>1, <2>2
    <3> QED
      BY <3>1 DEF Stream
  <2>4. Append(streams[i].data, u) \in Seq(KnownUpdate)
    BY <2>2, <2>3
  <2> HIDE DEF i, u
  <2>5. [streams[i] EXCEPT !.data = Append(streams[i].data, u)] \in Stream
    BY <2>3, <2>4 DEF Stream
  <2>6. streams' = [streams EXCEPT ![i] = [streams[i] EXCEPT !.data = Append(streams[i].data, u)]]
    BY <2>1
  <2>7. streams' \in Seq(Stream) /\ DOMAIN streams' = DOMAIN streams
    BY <1>1, <2>2, <2>5, <2>6
  <2>8. \A s \in DOMAIN streams : streams'[s].to = streams[s].to
                                  /\ streams'[s].handling = streams[s].handling
    BY <1>1, <2>2, <2>3, <2>6 DEF Stream
  <2> QED
    BY <1>1, <1>2, <2>1, <2>7, <2>8, CarryOwn
<1>5. CASE WriteToBroken(task)
  <2>1. /\ TakeNext(task) /\ UNCHANGED streams /\ link' \in {link, [link EXCEPT ![task] = 0]}
        /\ lost' = lost \cup {<<Head(queue[task]), task[2]>>}
    BY <1>5 DEF WriteToBroken
  <2>2. link' \in [Tasks -> Nat] /\ \A t \in Tasks : link'[t] \in {0, link[t]}
    BY <1>1, <2>1
  <2>3. lost' \subseteq KnownUpdate \X NodeId
    BY <1>1, <1>2, <2>1 DEF Tasks
  <2> QED
    BY <1>1, <1>2, <2>1, <2>2, <2>3, CarryOwn
<1>6. CASE Disconnect(task)
  <2>1. /\ link' = [link EXCEPT ![task] = 0]
        /\ UNCHANGED <<clock, committed, applied, unsent, queue, streams, lost>>
    BY <1>6 DEF Disconnect, managerVars
  <2>2. link' \in [Tasks -> Nat] /\ \A t \in Tasks : link'[t] \in {0, link[t]}
    BY <1>1, <2>1
  <2> QED
    BY <1>1, <2>1, <2>2, CarryOwn
<1> QED
  BY <1>3, <1>4, <1>5, <1>6

\* A connection that breaks loses a part of what it carries.
LEMMA BreakOwn ==
  ASSUME ClockInv, NEW i \in DOMAIN streams, NEW received \in 0..Len(streams[i].data), Break(i, received)
  PROVE  ClockInv'
<1>1. /\ streams \in Seq(Stream) /\ queue \in [Tasks -> Seq(KnownUpdate)] /\ link \in [Tasks -> Nat]
      /\ lost \subseteq KnownUpdate \X NodeId
  BY DEF ClockInv, UpdatesKnown
<1> DEFINE kept == SubSeq(streams[i].data, 1, received)
<1>2. /\ streams' = [streams EXCEPT ![i].open = FALSE, ![i].data = kept]
      /\ lost' = lost \cup {<<streams[i].data[k], streams[i].to>> : k \in (received + 1)..Len(streams[i].data)}
      /\ UNCHANGED <<clock, committed, applied, unsent, queue, link>>
  BY DEF Break, managerVars
<1>3. streams[i] \in Stream /\ streams[i].data \in Seq(KnownUpdate) /\ streams[i].to \in NodeId
  <2>1. streams[i] \in Stream
    BY <1>1
  <2> QED
    BY <2>1 DEF Stream
<1>4. kept \in Seq(KnownUpdate) /\ lost' \subseteq KnownUpdate \X NodeId
  <2>1. kept \in Seq(KnownUpdate)
    BY <1>3, SubSeqProperties
  <2>2. \A k \in (received + 1)..Len(streams[i].data) : streams[i].data[k] \in KnownUpdate
    BY <1>3
  <2> HIDE DEF kept
  <2> QED
    BY <1>1, <1>2, <1>3, <2>1, <2>2
<1> HIDE DEF kept
<1> DEFINE broken == [streams[i] EXCEPT !.open = FALSE, !.data = kept]
<1>5. broken \in Stream /\ broken.to = streams[i].to /\ broken.handling = streams[i].handling
  BY <1>3, <1>4 DEF Stream
<1>6. streams' = [streams EXCEPT ![i] = broken]
  BY <1>2
<1> HIDE DEF broken
<1>7. /\ streams' \in Seq(Stream) /\ DOMAIN streams' = DOMAIN streams
      /\ \A s \in DOMAIN streams : streams'[s].to = streams[s].to
                                  /\ streams'[s].handling = streams[s].handling
  BY <1>1, <1>5, <1>6
<1> QED
  BY <1>1, <1>2, <1>4, <1>7, CarryOwn

\* The clock of a node grows, and counts no commit of another that was not made.
LEMMA GrowOwn ==
  ASSUME ClockInv, NEW n \in NodeId, NEW c \in Clock, Covers(c, clock[n]),
         \A m \in NodeId \ {n} : Time(c, m) <= Time(clock[m], m),
         clock' = [clock EXCEPT ![n] = c]
  PROVE  /\ clock' \in [NodeId -> Clock] /\ ClockBound'
         /\ KnownUpdate \subseteq KnownUpdate' /\ Stream \subseteq Stream'
         /\ \A m \in NodeId : \A d \in Clock : Covers(clock[m], d) => Covers(clock'[m], d)
<1>1. /\ clock \in [NodeId -> Clock] /\ clock' \in [NodeId -> Clock] /\ clock'[n] = c
      /\ \A m \in NodeId \ {n} : clock'[m] = clock[m]
  BY DEF ClockInv, UpdatesKnown
<1>2. \A d \in Clock : \A m \in NodeId : Time(d, m) \in Nat
  BY ClockIsClock, TimeType
<1>3. ASSUME NEW m \in NodeId PROVE Covers(clock'[m], clock[m])
  <2>1. Covers(clock[m], clock[m])
    BY <1>1, ClockIsClock, CoversBoth
  <2> QED
    BY <1>1, <2>1
<1>4. KnownUpdate \subseteq KnownUpdate'
  BY <1>1, <1>3, KnownStays
<1>5. Stream \subseteq Stream'
  <2>1. Seq(KnownUpdate) \subseteq Seq(KnownUpdate')
    BY <1>4, SeqStays
  <2> QED
    BY <1>4, <2>1 DEF Stream
<1>6. ASSUME NEW m \in NodeId, NEW k \in NodeId PROVE Time(clock'[k], m) <= Time(clock'[m], m)
  <2>1. Time(clock[k], m) <= Time(clock[m], m) /\ Time(clock[m], m) <= Time(clock'[m], m)
    BY <1>3 DEF ClockInv, ClockBound, Covers
  <2>2. /\ Time(clock[k], m) \in Nat /\ Time(clock[m], m) \in Nat /\ Time(clock'[m], m) \in Nat
        /\ Time(clock'[k], m) \in Nat
    BY <1>1, <1>2
  <2>3. CASE k = n /\ m # n
    BY <1>1, <2>3
  <2>4. CASE k = n /\ m = n
    BY <2>2, <2>4
  <2>5. CASE k # n
    BY <1>1, <2>1, <2>2, <2>5
  <2> QED
    BY <2>3, <2>4, <2>5
<1>7. ASSUME NEW m \in NodeId, NEW d \in Clock, Covers(clock[m], d)
      PROVE  Covers(clock'[m], d)
  BY <1>1, <1>3, <1>7, ClockIsClock, CoversTransitive
<1> QED
  BY <1>1, <1>4, <1>5, <1>6, <1>7 DEF ClockBound

\* What was covered stays covered when a clock grows.
LEMMA CoveredStays ==
  ASSUME ClockInv, \A m \in NodeId : \A d \in Clock : Covers(clock[m], d) => Covers(clock'[m], d)
  PROVE  /\ \A m \in NodeId : \A i \in DOMAIN applied[m] : Covers(clock'[m], applied[m][i].clock)
         /\ \A s \in DOMAIN streams : streams[s].handling # NoUpdate =>
              Covers(clock'[streams[s].to], streams[s].handling.clock)
<1>1. ASSUME NEW m \in NodeId, NEW i \in DOMAIN applied[m] PROVE Covers(clock'[m], applied[m][i].clock)
  <2>1. applied[m] \in Seq(KnownUpdate)
    BY DEF ClockInv, UpdatesKnown
  <2>2. applied[m][i] \in KnownUpdate
    BY <2>1
  <2>3. applied[m][i].clock \in Clock
    BY <2>2 DEF KnownUpdate, Update
  <2> QED
    BY <2>3 DEF ClockInv, AppliedCovered
<1>2. ASSUME NEW s \in DOMAIN streams, streams[s].handling # NoUpdate
      PROVE  Covers(clock'[streams[s].to], streams[s].handling.clock)
  <2>1. streams[s] \in Stream
    BY DEF ClockInv, UpdatesKnown
  <2>2. streams[s].to \in NodeId /\ streams[s].handling \in KnownUpdate
    BY <1>2, <2>1 DEF Stream
  <2>3. streams[s].handling.clock \in Clock
    BY <2>2 DEF KnownUpdate, Update
  <2> QED
    BY <1>2, <2>2, <2>3 DEF ClockInv, HandledCovered
<1> QED
  BY <1>1, <1>2

\* What a commit of u makes of the updates of node n, when all operations merge.
CommitMakes(n, u) ==
  \/ /\ committed' = [committed EXCEPT ![n] = Append(@, u)]
     /\ applied' = [applied EXCEPT ![n] = Append(@, u)]
     /\ unsent' = unsent \cup {u}
  \/ UNCHANGED <<committed, applied, unsent>>

LEMMA CommitSays ==
  ASSUME NEW n \in NodeId, NEW tx \in Transactions, CommitLocally(n, tx)
  PROVE  /\ clock' = [clock EXCEPT ![n] = Tick(clock[n], n)]
         /\ CommitMakes(n, [operations |-> tx, clock |-> Tick(clock[n], n), origin |-> <<n>>])
         /\ UNCHANGED <<queue, lagged, streams, link, lost>>
<1> DEFINE r == CommitLocal(tx, n, clock[n])
           c == Tick(clock[n], n)
           u == [operations |-> tx, clock |-> c, origin |-> <<n>>]
<1>1. /\ r.ok
      /\ clock' = [clock EXCEPT ![n] = r.update.clock]
      /\ \/ /\ committed' = [committed EXCEPT ![n] = Append(@, r.update)]
            /\ applied' = [applied EXCEPT ![n] = Append(@, r.update)]
            /\ unsent' = unsent \cup {r.update}
         \/ UNCHANGED <<committed, applied, unsent>>
      /\ UNCHANGED <<queue, lagged, streams, link, lost>>
  BY DEF CommitLocally
<1>2. r.update = u /\ u.clock = c
  BY <1>1 DEF CommitLocal, CanCommitLocally, Error, Ok
<1> HIDE DEF r, u, c
<1>3. clock' = [clock EXCEPT ![n] = c] /\ CommitMakes(n, u)
  BY <1>1, <1>2 DEF CommitMakes
<1> QED
  BY <1>1, <1>3 DEF u, c

\* commit_and_broadcast: the update has the clock its node has from now on.
LEMMA CommitOwn ==
  ASSUME ClockInv, NEW n \in NodeId, NEW tx \in Transactions, CommitLocally(n, tx)
  PROVE  ClockInv'
<1> DEFINE c == Tick(clock[n], n)
           u == [operations |-> tx, clock |-> c, origin |-> <<n>>]
<1>2. /\ clock' = [clock EXCEPT ![n] = c] /\ CommitMakes(n, u)
      /\ UNCHANGED <<queue, streams, link, lost>>
  BY CommitSays
<1>3. IsClock(clock[n]) /\ clock[n] \in Clock
  BY ClockIsClock DEF ClockInv, UpdatesKnown
<1>4. /\ c \in Clock /\ Time(c, n) = Time(clock[n], n) + 1 /\ Time(clock[n], n) \in Nat
      /\ \A m \in NodeId \ {n} : Time(c, m) = Time(clock[n], m) /\ Time(clock[n], m) \in Nat
  BY <1>3, ClockIsClock, TickTime, TimeType
<1>5. u \in Update /\ u.clock = c
  BY <1>4 DEF Update
<1> HIDE DEF c, u
<1>6. Covers(c, clock[n])
  BY <1>4 DEF Covers
<1>7. \A m \in NodeId \ {n} : Time(c, m) <= Time(clock[m], m)
  BY <1>4 DEF ClockInv, ClockBound
<1>8. /\ clock' \in [NodeId -> Clock] /\ ClockBound'
      /\ KnownUpdate \subseteq KnownUpdate' /\ Stream \subseteq Stream'
      /\ \A m \in NodeId : \A d \in Clock : Covers(clock[m], d) => Covers(clock'[m], d)
  BY <1>2, <1>4, <1>6, <1>7, GrowOwn
<1>9. Seq(KnownUpdate) \subseteq Seq(KnownUpdate') /\ Seq(Stream) \subseteq Seq(Stream')
  BY <1>8, SeqStays
<1>10. clock'[n] = c
  BY <1>2 DEF ClockInv, UpdatesKnown
<1>11. u \in KnownUpdate'
  BY <1>5, <1>8, <1>10 DEF KnownUpdate, ClockBound
<1>12. /\ applied \in [NodeId -> Seq(KnownUpdate)] /\ applied' \in [NodeId -> Seq(KnownUpdate')]
       /\ committed' \in [NodeId -> Seq(KnownUpdate')] /\ unsent' \subseteq KnownUpdate'
  <2>1. /\ applied \in [NodeId -> Seq(KnownUpdate)] /\ committed \in [NodeId -> Seq(KnownUpdate)]
        /\ unsent \subseteq KnownUpdate
        /\ applied \in [NodeId -> Seq(KnownUpdate')] /\ committed \in [NodeId -> Seq(KnownUpdate')]
        /\ unsent \subseteq KnownUpdate'
    BY <1>8, <1>9 DEF ClockInv, UpdatesKnown
  <2>2. Append(applied[n], u) \in Seq(KnownUpdate') /\ Append(committed[n], u) \in Seq(KnownUpdate')
    BY <1>11, <2>1
  <2>3. \/ /\ committed' = [committed EXCEPT ![n] = Append(committed[n], u)]
           /\ applied' = [applied EXCEPT ![n] = Append(applied[n], u)]
           /\ unsent' = unsent \cup {u}
        \/ UNCHANGED <<committed, applied, unsent>>
    BY <1>2 DEF CommitMakes
  <2> QED
    BY <1>11, <2>1, <2>2, <2>3
<1>13. UpdatesKnown'
  BY <1>2, <1>8, <1>9, <1>12 DEF ClockInv, UpdatesKnown
<1>14. HandledCovered'
  BY <1>2, <1>8, CoveredStays DEF HandledCovered
<1>15. AppliedCovered'
  <2>1. ASSUME NEW m \in NodeId, NEW i \in DOMAIN applied'[m] PROVE Covers(clock'[m], applied'[m][i].clock)
    <3>1. CASE applied'[m] = applied[m]
      BY <1>8, <3>1, CoveredStays
    <3>2. CASE m = n /\ applied'[n] = Append(applied[n], u) /\ i \in DOMAIN applied[n]
      <4>1. applied'[n][i] = applied[n][i]
        BY <1>12, <3>2
      <4> QED
        BY <1>8, <3>2, <4>1, CoveredStays
    <3>3. CASE m = n /\ applied'[n] = Append(applied[n], u) /\ i \notin DOMAIN applied[n]
      <4>1. applied'[n][i] = u
        BY <1>12, <3>3
      <4>2. Covers(c, c)
        BY <1>4, ClockIsClock, CoversBoth
      <4> QED
        BY <1>5, <1>10, <3>3, <4>1, <4>2
    <3>4. \/ applied'[m] = applied[m]
          \/ m = n /\ applied'[n] = Append(applied[n], u)
      <4>1. \/ applied' = [applied EXCEPT ![n] = Append(applied[n], u)]
            \/ applied' = applied
        BY <1>2 DEF CommitMakes
      <4> QED
        BY <1>12, <4>1
    <3> QED
      BY <3>1, <3>2, <3>3, <3>4
  <2> QED
    BY <2>1 DEF AppliedCovered
<1> QED
  BY <1>8, <1>13, <1>14, <1>15 DEF ClockInv

\* receive_update merges a clock that claims nothing which is not so.
LEMMA ReceiveOwn ==
  ASSUME ClockInv, NEW i \in DOMAIN streams, Receive(i)
  PROVE  ClockInv'
<1> DEFINE n == streams[i].to
           u == Head(streams[i].data)
           c == MergeClocks(clock[n], u.clock)
           handled == [streams[i] EXCEPT !.data = Tail(streams[i].data), !.handling = u]
<1>1. /\ clock' = [clock EXCEPT ![n] = c] /\ streams[i].data # <<>>
      /\ streams' = [streams EXCEPT ![i] = handled]
      /\ UNCHANGED <<committed, applied, unsent, queue, link, lost>>
  BY DEF Receive
<1>2. streams \in Seq(Stream) /\ streams[i] \in Stream
  BY DEF ClockInv, UpdatesKnown
<1>3. n \in NodeId /\ streams[i].data \in Seq(KnownUpdate)
  BY <1>2 DEF Stream
<1>4. u \in KnownUpdate /\ Tail(streams[i].data) \in Seq(KnownUpdate)
  BY <1>1, <1>3
<1>5. handled \in Stream /\ handled.to = n /\ handled.handling = u
  BY <1>2, <1>4 DEF Stream
<1>6. /\ clock[n] \in Clock /\ IsClock(clock[n])
      /\ u.clock \in Clock /\ IsClock(u.clock) /\ \A m \in NodeId : Time(u.clock, m) <= Time(clock[m], m)
  BY <1>3, <1>4, ClockIsClock DEF ClockInv, UpdatesKnown, KnownUpdate, Update
<1> HIDE DEF n, u, handled
<1>7. c \in Clock /\ Covers(c, clock[n]) /\ Covers(c, u.clock)
  BY <1>6, ClockIsClock, MergeTime, MergeCovers
<1>8. \A m \in NodeId \ {n} : Time(c, m) <= Time(clock[m], m)
  <2>1. \A m \in NodeId : Time(clock[n], m) <= Time(clock[m], m)
    BY <1>3 DEF ClockInv, ClockBound
  <2> QED
    BY <1>6, <2>1, MergeTime DEF Larger
<1> HIDE DEF c
<1>9. /\ clock' \in [NodeId -> Clock] /\ ClockBound'
      /\ KnownUpdate \subseteq KnownUpdate' /\ Stream \subseteq Stream'
      /\ \A m \in NodeId : \A d \in Clock : Covers(clock[m], d) => Covers(clock'[m], d)
  BY <1>1, <1>3, <1>7, <1>8, GrowOwn
<1>10. Seq(KnownUpdate) \subseteq Seq(KnownUpdate') /\ Seq(Stream) \subseteq Seq(Stream')
  BY <1>9, SeqStays
<1>11. streams' \in Seq(Stream) /\ DOMAIN streams' = DOMAIN streams
  BY <1>1, <1>2, <1>5
<1>12. UpdatesKnown'
  BY <1>1, <1>9, <1>10, <1>11 DEF ClockInv, UpdatesKnown
<1>13. AppliedCovered'
  BY <1>1, <1>9, CoveredStays DEF AppliedCovered
<1>14. ASSUME NEW s \in DOMAIN streams', streams'[s].handling # NoUpdate
       PROVE  Covers(clock'[streams'[s].to], streams'[s].handling.clock)
  <2>1. CASE s = i
    <3>1. streams'[s].to = n /\ streams'[s].handling = u
      BY <1>1, <1>2, <1>5, <2>1
    <3>2. clock'[n] = c
      BY <1>1, <1>3 DEF ClockInv, UpdatesKnown
    <3> QED
      BY <1>7, <3>1, <3>2
  <2>2. CASE s # i
    <3>1. s \in DOMAIN streams /\ streams'[s] = streams[s]
      BY <1>1, <1>2, <1>11, <2>2
    <3> QED
      BY <1>9, <1>14, <3>1, CoveredStays
  <2> QED
    BY <2>1, <2>2
<1> QED
  BY <1>9, <1>12, <1>13, <1>14 DEF ClockInv, HandledCovered

\* What is applied was covered since its clock was merged.
LEMMA ApplyOwn ==
  ASSUME ClockInv, NEW i \in DOMAIN streams, ApplyAndForward(i)
  PROVE  ClockInv'
<1> DEFINE n == streams[i].to
           u == streams[i].handling
           handled == [streams[i] EXCEPT !.handling = NoUpdate]
<1>1. /\ u # NoUpdate /\ Send(n, u)
      /\ applied' \in {applied, [applied EXCEPT ![n] = Append(@, u)]}
      /\ streams' = [streams EXCEPT ![i] = handled]
      /\ lost' \subseteq lost \cup Overwritten(n) \cup {<<u, n>>}
      /\ UNCHANGED <<clock, committed, unsent, link>>
  <2>1. /\ u # NoUpdate /\ Send(n, u)
        /\ applied' \in {[applied EXCEPT ![n] = @], [applied EXCEPT ![n] = Append(@, u)]}
        /\ streams' = [streams EXCEPT ![i].handling = NoUpdate]
        /\ lost' \subseteq lost \cup Overwritten(n) \cup {<<u, n>>}
        /\ UNCHANGED <<clock, committed, unsent, link>>
    BY DEF ApplyAndForward
  <2>2. applied \in [NodeId -> Seq(KnownUpdate)]
    BY DEF ClockInv, UpdatesKnown
  <2>3. [applied EXCEPT ![n] = @] = applied
    BY <2>2
  <2> QED
    BY <2>1, <2>3
<1>2. streams \in Seq(Stream) /\ streams[i] \in Stream
  BY DEF ClockInv, UpdatesKnown
<1>3. n \in NodeId /\ u \in KnownUpdate
  BY <1>1, <1>2 DEF Stream
<1>4. handled \in Stream /\ handled.handling = NoUpdate
  BY <1>2 DEF Stream
<1>5. Covers(clock[n], u.clock)
  BY <1>1 DEF ClockInv, HandledCovered
<1> HIDE DEF n, u, handled
<1>6. queue' \in [Tasks -> Seq(KnownUpdate)] /\ lost' \subseteq KnownUpdate \X NodeId
  <2>1. queue' \in [Tasks -> Seq(KnownUpdate)] /\ Overwritten(n) \subseteq KnownUpdate \X NodeId
    BY <1>1, <1>3, SendOwn DEF ClockInv, UpdatesKnown
  <2> QED
    BY <1>1, <1>3, <2>1 DEF ClockInv, UpdatesKnown
<1>7. streams' \in Seq(Stream) /\ DOMAIN streams' = DOMAIN streams
  BY <1>1, <1>2, <1>4
<1>8. HandledCovered'
  <2>1. ASSUME NEW s \in DOMAIN streams', streams'[s].handling # NoUpdate
        PROVE  Covers(clock'[streams'[s].to], streams'[s].handling.clock)
    <3>1. s # i
      BY <1>1, <1>2, <1>4, <2>1
    <3>2. s \in DOMAIN streams /\ streams'[s] = streams[s]
      BY <1>1, <1>2, <1>7, <3>1
    <3> QED
      BY <1>1, <2>1, <3>2 DEF ClockInv, HandledCovered
  <2> QED
    BY <2>1 DEF HandledCovered
<1>9. applied \in [NodeId -> Seq(KnownUpdate)]
  BY DEF ClockInv, UpdatesKnown
<1>10. applied' \in [NodeId -> Seq(KnownUpdate)]
  <2>1. Append(applied[n], u) \in Seq(KnownUpdate)
    BY <1>3, <1>9
  <2> QED
    BY <1>1, <1>9, <2>1
<1>11. ASSUME NEW m \in NodeId, NEW k \in DOMAIN applied'[m]
       PROVE  Covers(clock'[m], applied'[m][k].clock)
  <2>1. CASE k \in DOMAIN applied[m] /\ applied'[m][k] = applied[m][k]
    BY <1>1, <2>1 DEF ClockInv, AppliedCovered
  <2>2. CASE m = n /\ applied'[m][k] = u
    BY <1>1, <1>5, <2>2
  <2>3. applied[m] \in Seq(KnownUpdate) /\ applied'[m] \in {applied[m], Append(applied[m], u)}
        /\ (m # n => applied'[m] = applied[m])
    BY <1>1, <1>3, <1>9
  <2> QED
    BY <2>1, <2>2, <2>3
<1>12. UpdatesKnown'
  BY <1>1, <1>6, <1>7, <1>10, SameClocks DEF ClockInv, UpdatesKnown
<1>13. ClockBound'
  BY <1>1 DEF ClockInv, ClockBound
<1> QED
  BY <1>8, <1>11, <1>12, <1>13 DEF ClockInv, AppliedCovered

LEMMA NextClocks ==
  ASSUME ClockInv, [Next]_vars
  PROVE  ClockInv'
<1>1. ASSUME TaskStep PROVE ClockInv'
  <2>1. ASSUME NEW n \in NodeId, NEW u \in unsent, Broadcast(n, u) PROVE ClockInv'
    BY <2>1, BroadcastOwn
  <2>2. ASSUME NEW task \in Tasks,
               Connect(task) \/ SkipForeign(task) \/ Write(task) \/ WriteToBroken(task) \/ Disconnect(task)
        PROVE  ClockInv'
    BY <2>2, ConnectOwn, TaskOwn
  <2>3. ASSUME NEW s \in DOMAIN streams, Receive(s) \/ ApplyAndForward(s) PROVE ClockInv'
    BY <2>3, ReceiveOwn, ApplyOwn
  <2> QED
    BY <1>1, <2>1, <2>2, <2>3 DEF TaskStep
<1>2. CASE UNCHANGED vars
  <2>1. UNCHANGED <<clock, committed, unsent, queue, link, streams, applied, lost>>
    BY <1>2 DEF vars
  <2> QED
    BY <2>1, SameClocks DEF ClockInv, UpdatesKnown, HandledCovered, AppliedCovered, ClockBound
<1> QED
  BY <1>1, <1>2, CommitOwn, BreakOwn DEF Next

\* The clock of a node covers all its state holds, and no node has heard of
\* more commits of another than that one made, whatever connections break and
\* whatever queues overflow (receive_update, commit_and_broadcast).
THEOREM ClocksAreSound == Spec => []ClocksSound
<1>1. ClockInv /\ [Next]_vars => ClockInv'
  BY NextClocks
<1>2. ASSUME ClockInv PROVE ClockCoversState
  <2>1. ASSUME NEW n \in NodeId, NEW i \in DOMAIN applied[n]
        PROVE  ~Below(clock[n], applied[n][i].clock)
    <3>1. applied[n] \in Seq(KnownUpdate) /\ clock[n] \in Clock
      BY <1>2 DEF ClockInv, UpdatesKnown
    <3>2. applied[n][i] \in KnownUpdate
      BY <3>1
    <3>3. applied[n][i].clock \in Clock
      BY <3>2 DEF KnownUpdate, Update
    <3>4. Covers(clock[n], applied[n][i].clock)
      BY <1>2 DEF ClockInv, AppliedCovered
    <3> QED
      BY <3>1, <3>3, <3>4, ClockIsClock, NotBelow
  <2> QED
    BY <2>1 DEF ClockCoversState
<1>3. ClockInv => ClocksSound
  BY <1>2 DEF ClocksSound, ClockInv
<1> QED
  BY <1>1, <1>3, ClocksBegin, PTL DEF Spec

-----------------------------------------------------------------------------
(* How often an update is in a queue, on a connection, or on all of them   *)

Flag(b) == IF b THEN 1 ELSE 0

\* Two sets that have nothing in common count together.
LEMMA CountBoth ==
  ASSUME NEW S, IsFiniteSet(S), NEW T, IsFiniteSet(T), S \cap T = {}
  PROVE  /\ IsFiniteSet(S \cup T)
         /\ Cardinality(S \cup T) = Cardinality(S) + Cardinality(T)
         /\ Cardinality(S) \in Nat /\ Cardinality(T) \in Nat
<1>1. Cardinality(S) \in Nat /\ Cardinality(T) \in Nat
  BY FS_CardinalityType
<1>2. Cardinality(S \cap T) = 0
  BY FS_EmptySet
<1>3. IsFiniteSet(S \cup T)
  BY FS_Union
<1>4. Cardinality(S \cup T) = Cardinality(S) + Cardinality(T) - Cardinality(S \cap T)
  BY FS_Union
<1> QED
  BY <1>1, <1>2, <1>3, <1>4

\* Two sets whose elements go to different ones of each other.
LEMMA CountSame ==
  ASSUME NEW S, IsFiniteSet(S), NEW T, IsFiniteSet(T),
         NEW f \in [S -> T], \A x, y \in S : f[x] = f[y] => x = y,
         NEW g \in [T -> S], \A x, y \in T : g[x] = g[y] => x = y
  PROVE  Cardinality(S) = Cardinality(T)
<1>1. Cardinality(S) \in Nat /\ Cardinality(T) \in Nat
  BY FS_CardinalityType
<1>2. ~(Cardinality(T) < Cardinality(S))
  BY FS_PigeonHole
<1>3. ~(Cardinality(S) < Cardinality(T))
  BY FS_PigeonHole
<1> QED
  BY <1>1, <1>2, <1>3

\* A set of one, or of none.
LEMMA CountOne ==
  ASSUME NEW x, NEW b \in BOOLEAN, NEW S, S = IF b THEN {x} ELSE {}
  PROVE  IsFiniteSet(S) /\ Cardinality(S) = Flag(b)
BY FS_EmptySet, FS_Singleton DEF Flag

\* Nothing counts as 0, and what is there counts.
LEMMA CountSome ==
  ASSUME NEW S, IsFiniteSet(S)
  PROVE  Cardinality(S) \in Nat /\ (Cardinality(S) = 0 <=> S = {})
BY FS_EmptySet, FS_CardinalityType

LEMMA PositionsFinite ==
  ASSUME NEW T, NEW q \in Seq(T), NEW u
  PROVE  /\ IsFiniteSet(Positions(q, u)) /\ Cardinality(Positions(q, u)) \in Nat
         /\ Cardinality(Positions(q, u)) = 0 <=> \A i \in DOMAIN q : q[i] # u
<1>1. IsFiniteSet(1..Len(q)) /\ Positions(q, u) \in SUBSET (1..Len(q))
  BY FS_Interval DEF Positions
<1>2. IsFiniteSet(Positions(q, u))
  BY <1>1, FS_Subset
<1>3. Positions(q, u) = {} <=> \A i \in DOMAIN q : q[i] # u
  BY DEF Positions
<1> QED
  BY <1>2, <1>3, CountSome

\* One more at the end.
LEMMA AppendCounts ==
  ASSUME NEW T, NEW q \in Seq(T), NEW v \in T, NEW u
  PROVE  Cardinality(Positions(Append(q, v), u)) = Cardinality(Positions(q, u)) + Flag(v = u)
<1>1. PICK N \in Nat : N = Len(q)
  OBVIOUS
<1>2. Positions(Append(q, v), u) = Positions(q, u) \cup (IF v = u THEN {N + 1} ELSE {})
  BY <1>1 DEF Positions
<1>3. N + 1 \notin Positions(q, u)
  BY <1>1 DEF Positions
<1>4. PICK S : S = IF v = u THEN {N + 1} ELSE {}
  OBVIOUS
<1>5. IsFiniteSet(S) /\ Cardinality(S) = Flag(v = u)
  BY <1>4, CountOne
<1>6. Positions(q, u) \cap S = {}
  BY <1>3, <1>4
<1> QED
  BY <1>2, <1>4, <1>5, <1>6, CountBoth, PositionsFinite

\* The positions of an update after the first k.
Rest(q, k, u) == {i \in (k + 1)..Len(q) : q[i] = u}

\* A part of a sequence that begins later.
LEMMA LaterCounts ==
  ASSUME NEW T, NEW q \in Seq(T), NEW k \in 0..Len(q), NEW u, NEW r \in Seq(T),
         Len(r) = Len(q) - k, \A i \in 1..Len(r) : r[i] = q[i + k]
  PROVE  /\ IsFiniteSet(Rest(q, k, u))
         /\ Cardinality(Rest(q, k, u)) = Cardinality(Positions(r, u))
<1>1. PICK N \in Nat : N = Len(q) /\ Len(r) = N - k
  OBVIOUS
<1>2. PICK S : S = Positions(r, u)
  OBVIOUS
<1>3. PICK D : D = {i \in (k + 1)..N : q[i] = u}
  OBVIOUS
<1>4. /\ S = {i \in 1..(N - k) : q[i + k] = u}
      /\ \A i \in S : i + k \in D /\ i \in Int
      /\ \A j \in D : j - k \in S /\ j \in Int
  <2>1. S = {i \in 1..(N - k) : q[i + k] = u}
    BY <1>1, <1>2 DEF Positions
  <2> QED
    BY <1>3, <2>1
<1>5. IsFiniteSet(S)
  BY <1>2, PositionsFinite
<1>6. IsFiniteSet(D)
  <2>1. IsFiniteSet((k + 1)..N) /\ D \in SUBSET ((k + 1)..N)
    BY <1>1, <1>3, FS_Interval
  <2> QED
    BY <2>1, FS_Subset
<1>7. PICK f : f = [i \in S |-> i + k]
  OBVIOUS
<1>8. PICK g : g = [j \in D |-> j - k]
  OBVIOUS
<1>9. f \in [S -> D] /\ \A x, y \in S : f[x] = f[y] => x = y
  BY <1>4, <1>7
<1>10. g \in [D -> S] /\ \A x, y \in D : g[x] = g[y] => x = y
  BY <1>4, <1>8
<1>11. Cardinality(S) = Cardinality(D)
  BY <1>5, <1>6, <1>9, <1>10, CountSame
<1> QED
  BY <1>1, <1>2, <1>3, <1>6, <1>11 DEF Rest

\* One less at the beginning.
LEMMA TailCounts ==
  ASSUME NEW T, NEW q \in Seq(T), q # <<>>, NEW u
  PROVE  /\ Cardinality(Positions(q, u)) = Flag(Head(q) = u) + Cardinality(Positions(Tail(q), u))
         /\ Cardinality(Positions(Tail(q), u)) \in Nat
<1>1. PICK N \in Nat : N = Len(q) /\ N # 0
  BY EmptySeq
<1> DEFINE r == Tail(q)
           D == Rest(q, 1, u)
           S == IF Head(q) = u THEN {1} ELSE {}
<1>2. r \in Seq(T) /\ Len(r) = Len(q) - 1 /\ \A i \in 1..Len(r) : r[i] = q[i + 1]
  BY <1>1
<1>3. IsFiniteSet(D) /\ Cardinality(D) = Cardinality(Positions(r, u))
  <2>1. 1 \in 0..Len(q)
    BY <1>1
  <2>2. PICK R : R = r
    OBVIOUS
  <2> HIDE DEF r
  <2>3. /\ IsFiniteSet(Rest(q, 1, u)) /\ Cardinality(Rest(q, 1, u)) = Cardinality(Positions(R, u))
    <3>1. PICK k \in 0..Len(q) : k = 1
      BY <2>1
    <3>2. R \in Seq(T) /\ Len(R) = Len(q) - k /\ \A i \in 1..Len(R) : R[i] = q[i + k]
      BY <1>2, <2>2, <3>1
    <3>3. /\ IsFiniteSet(Rest(q, k, u))
          /\ Cardinality(Rest(q, k, u)) = Cardinality(Positions(R, u))
      BY <3>2, LaterCounts
    <3> QED
      BY <3>1, <3>3
  <2> QED
    BY <2>2, <2>3
<1>4. Positions(q, u) = S \cup D /\ S \cap D = {}
  BY <1>1 DEF Positions, Rest
<1> HIDE DEF D, S
<1>5. IsFiniteSet(S) /\ Cardinality(S) = Flag(Head(q) = u)
  BY CountOne DEF S
<1> QED
  BY <1>2, <1>3, <1>4, <1>5, CountBoth, PositionsFinite

\* A sequence that is cut short.
LEMMA CutCounts ==
  ASSUME NEW T, NEW q \in Seq(T), NEW k \in 0..Len(q), NEW u
  PROVE  /\ Cardinality(Positions(q, u)) =
              Cardinality(Positions(SubSeq(q, 1, k), u)) + Cardinality(Rest(q, k, u))
         /\ IsFiniteSet(Rest(q, k, u))
         /\ Cardinality(Positions(SubSeq(q, 1, k), u)) \in Nat
<1>1. PICK N \in Nat : N = Len(q)
  OBVIOUS
<1> DEFINE r == SubSeq(q, 1, k)
           D == Rest(q, k, u)
<1>2. r \in Seq(T) /\ Len(r) = k /\ \A i \in 1..k : r[i] = q[i]
  BY <1>1, SubSeqProperties
<1>3. IsFiniteSet(D)
  <2>1. IsFiniteSet((k + 1)..N) /\ D \in SUBSET ((k + 1)..N)
    BY <1>1, FS_Interval DEF Rest
  <2> QED
    BY <2>1, FS_Subset
<1> HIDE DEF r
<1>4. Positions(q, u) = Positions(r, u) \cup D /\ Positions(r, u) \cap D = {}
  BY <1>1, <1>2 DEF Positions, Rest
<1> HIDE DEF D
<1>5. /\ Cardinality(Positions(q, u)) = Cardinality(Positions(r, u)) + Cardinality(D)
      /\ Cardinality(Positions(r, u)) \in Nat
  BY <1>2, <1>3, <1>4, CountBoth, PositionsFinite
<1> QED
  BY <1>3, <1>5 DEF r, D

-----------------------------------------------------------------------------
(* How often it is on connections; what is handled counts as well          *)

LEMMA HeldCounts ==
  ASSUME NEW T, NEW c, c.data \in Seq(T), NEW u
  PROVE  /\ IsFiniteSet(Held(c, u))
         /\ Cardinality(Held(c, u)) = Flag(c.handling = u) + Cardinality(Positions(c.data, u))
         /\ Cardinality(Held(c, u)) \in Nat
<1>1. PICK S : S = IF c.handling = u THEN {0} ELSE {}
  OBVIOUS
<1>2. IsFiniteSet(S) /\ Cardinality(S) = Flag(c.handling = u)
  BY <1>1, CountOne
<1>3. PICK P : P = Positions(c.data, u)
  OBVIOUS
<1>4. IsFiniteSet(P)
  BY <1>3, PositionsFinite
<1>5. P \cap S = {}
  BY <1>1, <1>3 DEF Positions
<1>6. Held(c, u) = P \cup S
  BY <1>1, <1>3 DEF Held
<1>7. /\ IsFiniteSet(P \cup S) /\ Cardinality(P \cup S) = Cardinality(P) + Cardinality(S)
      /\ Cardinality(P) \in Nat /\ Cardinality(S) \in Nat
  BY <1>2, <1>4, <1>5, CountBoth
<1> QED
  BY <1>2, <1>3, <1>6, <1>7

\* The copies on one connection.
LEMMA OneStreamCounts ==
  ASSUME NEW s, NEW H, IsFiniteSet(H)
  PROVE  IsFiniteSet({s} \X H) /\ Cardinality({s} \X H) = Cardinality(H)
<1>1. PICK S : S = {s} \X H
  OBVIOUS
<1>2. IsFiniteSet(S)
  <2>1. IsFiniteSet({s})
    BY FS_Singleton
  <2> QED
    BY <1>1, <2>1, FS_Product
<1>3. PICK f : f = [x \in S |-> x[2]]
  OBVIOUS
<1>4. PICK g : g = [i \in H |-> <<s, i>>]
  OBVIOUS
<1>5. f \in [S -> H] /\ \A x, y \in S : f[x] = f[y] => x = y
  BY <1>1, <1>3
<1>6. g \in [H -> S] /\ \A x, y \in H : g[x] = g[y] => x = y
  BY <1>1, <1>4
<1>7. Cardinality(S) = Cardinality(H)
  BY <1>2, <1>5, <1>6, CountSame
<1> QED
  BY <1>1, <1>2, <1>7

\* The copies that connections to m hold, of those in S.
HeldFor(c, u, m) == IF c.to = m THEN Cardinality(Held(c, u)) ELSE 0
OnThese(st, S, u, m) == UNION {{s} \X Held(st[s], u) : s \in {t \in S : st[t].to = m}}

\* One connection more.
LEMMA AnotherCounts ==
  ASSUME NEW T, NEW st, NEW S, NEW u, NEW m, IsFiniteSet(OnThese(st, S, u, m)),
         NEW s, s \notin S, st[s].data \in Seq(T)
  PROVE  /\ IsFiniteSet(OnThese(st, S \cup {s}, u, m))
         /\ Cardinality(OnThese(st, S \cup {s}, u, m)) =
              Cardinality(OnThese(st, S, u, m)) +
                HeldFor(st[s], u, m)
         /\ Cardinality(OnThese(st, S, u, m)) \in Nat
<1>1. PICK H : H = Held(st[s], u)
  OBVIOUS
<1>2. IsFiniteSet(H)
  BY <1>1, HeldCounts
<1>3. PICK D : D = {s} \X H
  OBVIOUS
<1>4. IsFiniteSet(D) /\ Cardinality(D) = Cardinality(H)
  BY <1>2, <1>3, OneStreamCounts
<1>5. PICK O : O = OnThese(st, S, u, m)
  OBVIOUS
<1>6. Cardinality(O) \in Nat
  BY <1>5, CountSome
<1>7. CASE st[s].to = m
  <2>1. {t \in S \cup {s} : st[t].to = m} = {t \in S : st[t].to = m} \cup {s}
    BY <1>7
  <2>2. OnThese(st, S \cup {s}, u, m) = O \cup D
    BY <1>1, <1>3, <1>5, <2>1 DEF OnThese
  <2>3. O \cap D = {}
    BY <1>3, <1>5 DEF OnThese
  <2>4. IsFiniteSet(O \cup D) /\ Cardinality(O \cup D) = Cardinality(O) + Cardinality(D)
    BY <1>4, <1>5, <2>3, CountBoth
  <2> QED
    BY <1>1, <1>4, <1>5, <1>6, <1>7, <2>2, <2>4 DEF HeldFor
<1>8. CASE st[s].to # m
  <2>1. {t \in S \cup {s} : st[t].to = m} = {t \in S : st[t].to = m}
    BY <1>8
  <2>2. OnThese(st, S \cup {s}, u, m) = O
    BY <1>5, <2>1 DEF OnThese
  <2> QED
    BY <1>5, <1>6, <1>8, <2>2 DEF HeldFor
<1> QED
  BY <1>7, <1>8

LEMMA StreamsFinite ==
  ASSUME NEW T, NEW st, NEW N \in Nat, \A s \in 1..N : st[s].data \in Seq(T), NEW u, NEW m,
         NEW S, S \subseteq 1..N
  PROVE  IsFiniteSet(OnThese(st, S, u, m))
<1> DEFINE G == {k \in 0..N : IsFiniteSet(OnThese(st, 1..k, u, m))}
<1>2. 0 \in G
  <2>1. OnThese(st, 1..0, u, m) = {}
    BY DEF OnThese
  <2>2. IsFiniteSet({})
    BY FS_EmptySet
  <2>3. IsFiniteSet(OnThese(st, 1..0, u, m))
    BY <2>1, <2>2
  <2> QED
    BY <2>3
<1>3. ASSUME NEW k \in 1..N, k - 1 \in G PROVE k \in G
  <2>1. PICK R : R = 1..(k - 1)
    OBVIOUS
  <2>2. k \notin R /\ st[k].data \in Seq(T) /\ IsFiniteSet(OnThese(st, R, u, m))
    BY <1>3, <2>1
  <2>3. IsFiniteSet(OnThese(st, R \cup {k}, u, m))
    BY <2>2, AnotherCounts
  <2>4. 1..k = R \cup {k}
    BY <2>1
  <2>5. IsFiniteSet(OnThese(st, 1..k, u, m))
    BY <2>3, <2>4
  <2> QED
    BY <2>5
<1>4. N \in G
  <2>1. \A k \in 1..N : k - 1 \in G => k \in G
    BY <1>3
  <2> HIDE DEF G
  <2>2. 0..N \subseteq G
    BY <1>2, <2>1, NaturalSteps
  <2> QED
    BY <2>2
<1>5. PICK O : O = OnThese(st, 1..N, u, m)
  OBVIOUS
<1>6. IsFiniteSet(O) /\ OnThese(st, S, u, m) \in SUBSET O
  BY <1>4, <1>5 DEF OnThese
<1> QED
  BY <1>6, FS_Subset

\* The copies that a connection holds and the others do.
LEMMA StreamCounts ==
  ASSUME NEW T, NEW st, NEW N \in Nat, \A s \in 1..N : st[s].data \in Seq(T), NEW u, NEW m,
         NEW s \in 1..N
  PROVE  /\ Cardinality(OnThese(st, 1..N, u, m)) =
              Cardinality(OnThese(st, (1..N) \ {s}, u, m)) +
                HeldFor(st[s], u, m)
         /\ Cardinality(OnThese(st, (1..N) \ {s}, u, m)) \in Nat
<1>1. PICK R : R = (1..N) \ {s}
  OBVIOUS
<1>2. IsFiniteSet(OnThese(st, R, u, m))
  BY <1>1, StreamsFinite
<1>3. s \notin R /\ R \cup {s} = 1..N /\ st[s].data \in Seq(T)
  BY <1>1
<1>4. Cardinality(OnThese(st, R \cup {s}, u, m)) = Cardinality(OnThese(st, R, u, m)) + HeldFor(st[s], u, m)
  BY <1>2, <1>3, AnotherCounts
<1>5. Cardinality(OnThese(st, R, u, m)) \in Nat
  BY <1>2, CountSome
<1> QED
  BY <1>1, <1>3, <1>4, <1>5

\* What changes when one connection does.
ChangedAt(s, st, new, N, u, m) ==
  /\ Cardinality(OnThese(new, 1..N, u, m)) =
       Cardinality(OnThese(st, 1..N, u, m)) + HeldFor(new[s], u, m) - HeldFor(st[s], u, m)
  /\ Cardinality(OnThese(st, 1..N, u, m)) \in Nat
  /\ Cardinality(OnThese(st, 1..N, u, m)) >= HeldFor(st[s], u, m)

LEMMA ChangeCounts ==
  ASSUME NEW T, NEW st, NEW new, NEW N \in Nat, \A s \in 1..N : st[s].data \in Seq(T) /\ new[s].data \in Seq(T),
         NEW u, NEW m, NEW s \in 1..N,
         new[s].to = st[s].to, \A t \in (1..N) \ {s} : new[t] = st[t]
  PROVE  ChangedAt(s, st, new, N, u, m)
<1>0. (\A t \in 1..N : st[t].data \in Seq(T)) /\ \A t \in 1..N : new[t].data \in Seq(T)
  OBVIOUS
<1>1. OnThese(new, (1..N) \ {s}, u, m) = OnThese(st, (1..N) \ {s}, u, m)
  BY DEF OnThese
<1>2. /\ Cardinality(OnThese(st, 1..N, u, m)) =
           Cardinality(OnThese(st, (1..N) \ {s}, u, m)) +
             HeldFor(st[s], u, m)
      /\ Cardinality(OnThese(st, (1..N) \ {s}, u, m)) \in Nat
  BY <1>0, StreamCounts
<1>3. /\ Cardinality(OnThese(new, 1..N, u, m)) =
           Cardinality(OnThese(new, (1..N) \ {s}, u, m)) +
             HeldFor(new[s], u, m)
  BY <1>0, StreamCounts
<1>4. HeldFor(st[s], u, m) \in Nat /\ HeldFor(new[s], u, m) \in Nat
  <2>1. Cardinality(Held(st[s], u)) \in Nat
    BY <1>0, HeldCounts
  <2>2. Cardinality(Held(new[s], u)) \in Nat
    BY <1>0, HeldCounts
  <2> QED
    BY <2>1, <2>2 DEF HeldFor
<1> QED
  BY <1>1, <1>2, <1>3, <1>4 DEF ChangedAt

-----------------------------------------------------------------------------
(* Where updates are *)

\* No connection takes an update back to the node it began on.
FromOthers(c) ==
  /\ c.handling # NoUpdate => c.handling.origin # <<c.to>>
  /\ \A i \in DOMAIN c.data : c.data[i].origin # <<c.to>>

Routed ==
  /\ \A n \in NodeId : \A i \in DOMAIN committed[n] : committed[n][i].origin = <<n>>
  /\ \A task \in Tasks : link[task] # 0 => streams[link[task]].to = task[2]
  /\ \A s \in DOMAIN streams : FromOthers(streams[s])

\* Nothing that is not an update is taken for one.
LEMMA UpdatesDiffer == KnownUpdate \subseteq Update /\ NoUpdate \notin KnownUpdate
BY NetworkAssumption DEF KnownUpdate

LEMMA StreamTypes ==
  ASSUME ClockInv
  PROVE  /\ DOMAIN streams = 1..Len(streams) /\ Len(streams) \in Nat
         /\ \A s \in DOMAIN streams :
              /\ streams[s] \in Stream /\ streams[s].data \in Seq(KnownUpdate)
              /\ streams[s].data \in Seq(Update) /\ streams[s].to \in NodeId
              /\ streams[s].handling \in KnownUpdate \cup {NoUpdate}
<1>1. streams \in Seq(Stream)
  BY DEF ClockInv, UpdatesKnown
<1>2. ASSUME NEW s \in DOMAIN streams
      PROVE  /\ streams[s] \in Stream /\ streams[s].data \in Seq(KnownUpdate)
             /\ streams[s].data \in Seq(Update) /\ streams[s].to \in NodeId
             /\ streams[s].handling \in KnownUpdate \cup {NoUpdate}
  <2>1. streams[s] \in Stream
    BY <1>1
  <2>2. Seq(KnownUpdate) \subseteq Seq(Update)
    BY UpdatesDiffer, SeqStays
  <2> QED
    BY <2>1, <2>2 DEF Stream
<1> QED
  BY <1>1, <1>2

LEMMA StreamTypesNext ==
  ASSUME ClockInv'
  PROVE  \A s \in DOMAIN streams' : streams'[s].data \in Seq(Update)
<1>1. streams' \in Seq(Stream')
  BY DEF ClockInv, UpdatesKnown
<1>2. ASSUME NEW s \in DOMAIN streams' PROVE streams'[s].data \in Seq(Update)
  <2>1. streams'[s] \in Stream'
    BY <1>1
  <2>2. KnownUpdate' \subseteq Update
    BY DEF KnownUpdate
  <2>3. Seq(KnownUpdate') \subseteq Seq(Update)
    BY <2>2, SeqStays
  <2> QED
    BY <2>1, <2>3 DEF Stream
<1> QED
  BY <1>2

\* The parts of the sum.
InAll(unsentTo, queued, carried, received, gone) == unsentTo + queued + carried + received + gone

LEMMA PartsCount ==
  ASSUME ClockInv, NEW u, NEW n \in NodeId, NEW m \in NodeId \ {n}
  PROVE  /\ CopiesOf(u, n, m) =
              InAll(Flag(u \in unsent), Cardinality(Positions(queue[<<n, m>>], u)),
                    Cardinality(OnStreams(u, m)), Cardinality(Positions(applied[m], u)),
                    Flag(<<u, m>> \in lost))
         /\ Cardinality(Positions(queue[<<n, m>>], u)) \in Nat
         /\ Cardinality(OnStreams(u, m)) \in Nat
         /\ Cardinality(Positions(applied[m], u)) \in Nat
         /\ queue[<<n, m>>] \in Seq(KnownUpdate) /\ applied[m] \in Seq(KnownUpdate)
<1>1. <<n, m>> \in Tasks
  BY DEF Tasks
<1>2. queue[<<n, m>>] \in Seq(KnownUpdate) /\ applied[m] \in Seq(KnownUpdate)
  BY <1>1 DEF ClockInv, UpdatesKnown
<1>3. /\ Cardinality(Positions(queue[<<n, m>>], u)) \in Nat
      /\ Cardinality(Positions(applied[m], u)) \in Nat
  BY <1>2, PositionsFinite
<1>4. Cardinality(OnStreams(u, m)) \in Nat
  <2>1. PICK N \in Nat : N = Len(streams) /\ DOMAIN streams = 1..N
    BY StreamTypes
  <2>2. \A s \in 1..N : streams[s].data \in Seq(Update)
    BY <2>1, StreamTypes
  <2>3. IsFiniteSet(OnThese(streams, 1..N, u, m))
    BY <2>2, StreamsFinite
  <2>4. OnStreams(u, m) = OnThese(streams, 1..N, u, m)
    BY <2>1 DEF OnStreams, OnThese
  <2> QED
    BY <2>3, <2>4, CountSome
<1>5. CopiesOf(u, n, m) =
        InAll(Flag(u \in unsent), Cardinality(Positions(queue[<<n, m>>], u)),
              Cardinality(OnStreams(u, m)), Cardinality(Positions(applied[m], u)),
              Flag(<<u, m>> \in lost))
  BY DEF CopiesOf, Flag, InAll
<1> QED
  BY <1>2, <1>3, <1>4, <1>5

LEMMA PartsNext ==
  ASSUME NEW u, NEW n, NEW m
  PROVE  CopiesOf(u, n, m)' =
           InAll(Flag(u \in unsent'), Cardinality(Positions(queue'[<<n, m>>], u)),
                 Cardinality(OnStreams(u, m)'), Cardinality(Positions(applied'[m], u)),
                 Flag(<<u, m>> \in lost'))
BY DEF CopiesOf, Flag, InAll

\* A connection that goes on with other contents.
Carried(s, c, u, m) ==
  /\ Cardinality(OnStreams(u, m)') =
       Cardinality(OnStreams(u, m)) + HeldFor(c, u, m) - HeldFor(streams[s], u, m)
  /\ Cardinality(OnStreams(u, m)) \in Nat
  /\ Cardinality(OnStreams(u, m)) >= HeldFor(streams[s], u, m)
  /\ c.to = m => HeldFor(c, u, m) = Flag(c.handling = u) + Cardinality(Positions(c.data, u))
  /\ streams[s].to = m =>
       HeldFor(streams[s], u, m) =
         Flag(streams[s].handling = u) + Cardinality(Positions(streams[s].data, u))
  /\ c.to # m => HeldFor(c, u, m) = 0 /\ HeldFor(streams[s], u, m) = 0
  /\ Cardinality(Positions(c.data, u)) \in Nat
  /\ Cardinality(Positions(streams[s].data, u)) \in Nat

LEMMA CarriedCounts ==
  ASSUME ClockInv, ClockInv', NEW s \in DOMAIN streams, NEW c, streams' = [streams EXCEPT ![s] = c],
         c.to = streams[s].to, NEW u, NEW m
  PROVE  Carried(s, c, u, m)
<1>1. PICK N \in Nat : N = Len(streams) /\ DOMAIN streams = 1..N
  BY StreamTypes
<1>2. DOMAIN streams' = 1..N /\ streams'[s] = c /\ \A t \in (1..N) \ {s} : streams'[t] = streams[t]
  BY <1>1
<1>3. /\ \A t \in 1..N : streams[t].data \in Seq(Update) /\ streams'[t].data \in Seq(Update)
      /\ c.data \in Seq(Update) /\ streams[s].data \in Seq(Update)
  BY <1>1, <1>2, StreamTypes, StreamTypesNext
<1>4. PICK new : new = streams'
  OBVIOUS
<1>5. /\ \A t \in 1..N : streams[t].data \in Seq(Update) /\ new[t].data \in Seq(Update)
      /\ new[s].to = streams[s].to /\ \A t \in (1..N) \ {s} : new[t] = streams[t]
      /\ s \in 1..N
  BY <1>1, <1>2, <1>3, <1>4
<1>6. /\ Cardinality(OnThese(new, 1..N, u, m)) =
           Cardinality(OnThese(streams, 1..N, u, m)) + HeldFor(new[s], u, m) - HeldFor(streams[s], u, m)
      /\ Cardinality(OnThese(streams, 1..N, u, m)) \in Nat
      /\ Cardinality(OnThese(streams, 1..N, u, m)) >= HeldFor(streams[s], u, m)
  <2>1. PICK old : old = streams
    OBVIOUS
  <2>2. /\ \A t \in 1..N : old[t].data \in Seq(Update) /\ new[t].data \in Seq(Update)
        /\ new[s].to = old[s].to /\ (\A t \in (1..N) \ {s} : new[t] = old[t])
        /\ s \in 1..N
    BY <1>5, <2>1
  <2>3. ChangedAt(s, old, new, N, u, m)
    BY <2>2, ChangeCounts
  <2> QED
    BY <2>1, <2>3 DEF ChangedAt
<1>7. /\ OnStreams(u, m)' = OnThese(new, 1..N, u, m)
      /\ OnStreams(u, m) = OnThese(streams, 1..N, u, m)
  BY <1>1, <1>2, <1>4 DEF OnStreams, OnThese
<1>8. /\ Cardinality(Held(c, u)) = Flag(c.handling = u) + Cardinality(Positions(c.data, u))
      /\ Cardinality(Held(c, u)) \in Nat
  BY <1>3, HeldCounts
<1>9. /\ Cardinality(Held(streams[s], u)) =
           Flag(streams[s].handling = u) + Cardinality(Positions(streams[s].data, u))
      /\ Cardinality(Held(streams[s], u)) \in Nat
  <2>1. PICK o : o = streams[s]
    OBVIOUS
  <2>2. /\ Cardinality(Held(o, u)) = Flag(o.handling = u) + Cardinality(Positions(o.data, u))
        /\ Cardinality(Held(o, u)) \in Nat
    BY <1>3, <2>1, HeldCounts
  <2> QED
    BY <2>1, <2>2
<1>10. /\ c.to = m => HeldFor(c, u, m) = Flag(c.handling = u) + Cardinality(Positions(c.data, u))
       /\ streams[s].to = m =>
            HeldFor(streams[s], u, m) =
              Flag(streams[s].handling = u) + Cardinality(Positions(streams[s].data, u))
       /\ c.to # m => HeldFor(c, u, m) = 0 /\ HeldFor(streams[s], u, m) = 0
       /\ HeldFor(c, u, m) \in Nat /\ HeldFor(streams[s], u, m) \in Nat
  BY <1>8, <1>9 DEF HeldFor
<1>11. new[s] = c
  BY <1>2, <1>4
<1>12. Cardinality(Positions(c.data, u)) \in Nat
  BY <1>3, PositionsFinite
<1>13. Cardinality(Positions(streams[s].data, u)) \in Nat
  <2>1. PICK q : q = streams[s].data
    OBVIOUS
  <2>2. q \in Seq(Update)
    BY <1>3, <2>1
  <2>3. Cardinality(Positions(q, u)) \in Nat
    BY <2>2, PositionsFinite
  <2> QED
    BY <2>1, <2>3
<1> QED
  BY <1>6, <1>7, <1>10, <1>11, <1>12, <1>13 DEF Carried

\* The broadcast queue: what is sent is in the queue of every task of the node,
\* and what it takes from a queue is lost.
LEMMA SendCounts ==
  ASSUME ClockInv, NEW n \in NodeId, NEW m \in NodeId \ {n}, NEW u \in KnownUpdate, u.origin = <<n>>,
         NEW k \in NodeId, NEW v \in KnownUpdate, Send(k, v)
  PROVE  /\ Cardinality(Positions(queue'[<<n, m>>], u)) + Flag(<<u, m>> \in Overwritten(k)) =
              Cardinality(Positions(queue[<<n, m>>], u)) + Flag(k = n /\ v = u)
         /\ Cardinality(Positions(queue'[<<n, m>>], u)) \in Nat
<1> DEFINE task == <<n, m>>
           q == queue[task]
<1>1. task \in Tasks /\ task[1] = n /\ task[2] = m
  BY DEF Tasks
<1>2. q \in Seq(KnownUpdate) /\ Cardinality(Positions(q, u)) \in Nat
  BY PartsCount
<1>3. /\ k # n => queue'[task] = q
      /\ k = n /\ Full(task) => queue'[task] = Append(Tail(q), v)
      /\ k = n /\ ~Full(task) => queue'[task] = Append(q, v)
  BY <1>1 DEF Send
<1>4. <<u, m>> \in Overwritten(k) <=> k = n /\ Full(task) /\ Head(q) = u
  <2>1. ASSUME NEW t \in Tasks, t[1] = k, Own(t, Head(queue[t])), Head(queue[t]) = u, t[2] = m
        PROVE  t = task /\ k = n
    <3>1. <<k>> = <<n>>
      BY <2>1 DEF Own
    <3>2. k = n
      BY <3>1
    <3> QED
      BY <2>1, <3>2 DEF Tasks
  <2>2. Own(task, u)
    BY DEF Own
  <2>3. ASSUME <<u, m>> \in Overwritten(k) PROVE k = n /\ Full(task) /\ Head(q) = u
    <3>1. PICK t \in Tasks : /\ t[1] = k /\ Full(t) /\ Own(t, Head(queue[t]))
                             /\ <<u, m>> = <<Head(queue[t]), t[2]>>
      BY <2>3 DEF Overwritten
    <3> QED
      BY <2>1, <3>1
  <2>4. ASSUME k = n, Full(task), Head(q) = u PROVE <<u, m>> \in Overwritten(k)
    BY <1>1, <2>2, <2>4 DEF Overwritten
  <2> QED
    BY <2>3, <2>4
<1>5. CASE k # n
  BY <1>2, <1>3, <1>4, <1>5 DEF Flag
<1>6. CASE k = n /\ ~Full(task)
  <2>1. Cardinality(Positions(Append(q, v), u)) = Cardinality(Positions(q, u)) + Flag(v = u)
    BY <1>2, AppendCounts
  <2>2. Flag(<<u, m>> \in Overwritten(k)) = 0 /\ Flag(k = n /\ v = u) = Flag(v = u) /\ Flag(v = u) \in Nat
    BY <1>4, <1>6 DEF Flag
  <2>3. queue'[task] = Append(q, v)
    BY <1>3, <1>6
  <2> HIDE DEF q, task
  <2>4. Cardinality(Positions(queue'[task], u)) = Cardinality(Positions(q, u)) + Flag(v = u)
    BY <2>1, <2>3
  <2> QED
    BY <1>2, <2>2, <2>4 DEF q, task
<1>7. CASE k = n /\ Full(task)
  <2>1. q # <<>>
    BY <1>7, NetworkAssumption DEF Full
  <2>2. /\ Cardinality(Positions(q, u)) = Flag(Head(q) = u) + Cardinality(Positions(Tail(q), u))
        /\ Cardinality(Positions(Tail(q), u)) \in Nat
    BY <1>2, <2>1, TailCounts
  <2>3. PICK r : r = Tail(q)
    OBVIOUS
  <2>4. r \in Seq(KnownUpdate)
    BY <1>2, <2>1, <2>3
  <2>5. Cardinality(Positions(Append(r, v), u)) = Cardinality(Positions(r, u)) + Flag(v = u)
    BY <2>4, AppendCounts
  <2>6. Flag(<<u, m>> \in Overwritten(k)) = Flag(Head(q) = u) /\ Flag(k = n /\ v = u) = Flag(v = u)
    BY <1>4, <1>7 DEF Flag
  <2>7. queue'[task] = Append(r, v)
    BY <1>3, <1>7, <2>3
  <2>8. Flag(v = u) \in Nat /\ Flag(Head(q) = u) \in Nat
    BY DEF Flag
  <2> HIDE DEF q, task
  <2>9. /\ Cardinality(Positions(queue'[task], u)) = Cardinality(Positions(r, u)) + Flag(v = u)
        /\ Cardinality(Positions(q, u)) = Flag(Head(q) = u) + Cardinality(Positions(r, u))
        /\ Cardinality(Positions(r, u)) \in Nat
    BY <2>2, <2>3, <2>5, <2>7
  <2> QED
    BY <2>6, <2>8, <2>9 DEF q, task
<1> QED
  BY <1>5, <1>6, <1>7

-----------------------------------------------------------------------------
(* Routes *)

\* Connections that stay, to the same nodes, with nothing of these.
LEMMA LinesRouted ==
  ASSUME ClockInv, Routed, UNCHANGED committed, DOMAIN streams' = DOMAIN streams,
         \A s \in DOMAIN streams : streams'[s].to = streams[s].to /\ FromOthers(streams'[s]),
         \A task \in Tasks : link'[task] \in {0, link[task]}
  PROVE  Routed'
<1>1. \A task \in Tasks : link'[task] # 0 => streams'[link'[task]].to = task[2]
  BY DEF Routed, ClockInv, UpdatesKnown
<1>2. \A n \in NodeId : \A i \in DOMAIN committed'[n] : committed'[n][i].origin = <<n>>
  BY DEF Routed
<1>3. \A s \in DOMAIN streams' : FromOthers(streams'[s])
  OBVIOUS
<1> QED
  BY <1>1, <1>2, <1>3 DEF Routed, FromOthers

\* The same, of one connection that changes.
LEMMA LineRouted ==
  ASSUME ClockInv, Routed, UNCHANGED committed, NEW s \in DOMAIN streams, NEW c,
         streams' = [streams EXCEPT ![s] = c], c.to = streams[s].to, FromOthers(c), UNCHANGED link
  PROVE  Routed'
<1>1. DOMAIN streams' = DOMAIN streams
  OBVIOUS
<1>2. \A t \in DOMAIN streams : streams'[t].to = streams[t].to /\ FromOthers(streams'[t])
  BY DEF Routed
<1> QED
  BY <1>1, <1>2, LinesRouted

LEMMA CommitRouted ==
  ASSUME ClockInv, Routed, NEW n \in NodeId, NEW tx \in Transactions, CommitLocally(n, tx)
  PROVE  Routed'
<1> DEFINE u == [operations |-> tx, clock |-> Tick(clock[n], n), origin |-> <<n>>]
<1>1. CommitMakes(n, u) /\ UNCHANGED <<streams, link>>
  BY CommitSays
<1>2. u.origin = <<n>>
  OBVIOUS
<1> HIDE DEF u
<1>3. committed \in [NodeId -> Seq(KnownUpdate)]
  BY DEF ClockInv, UpdatesKnown
<1>4. ASSUME NEW m \in NodeId, NEW i \in DOMAIN committed'[m] PROVE committed'[m][i].origin = <<m>>
  <2>1. \/ committed'[m] = committed[m]
        \/ m = n /\ committed'[m] = Append(committed[m], u)
    <3>1. committed' = [committed EXCEPT ![n] = Append(committed[n], u)] \/ committed' = committed
      BY <1>1 DEF CommitMakes
    <3> QED
      BY <1>3, <3>1
  <2>2. CASE committed'[m] = committed[m]
    BY <1>4, <2>2 DEF Routed
  <2>3. CASE m = n /\ committed'[m] = Append(committed[m], u)
    <3>1. PICK q : q = committed[m]
      OBVIOUS
    <3>2. q \in Seq(KnownUpdate)
      BY <1>3, <3>1
    <3>3. PICK r : r = Append(q, u)
      OBVIOUS
    <3>4. i \in DOMAIN r /\ committed'[m][i] = r[i]
      BY <1>4, <2>3, <3>1, <3>3
    <3>5. r[i] = u \/ (i \in DOMAIN q /\ r[i] = q[i])
      BY <3>2, <3>3, <3>4
    <3> QED
      BY <1>2, <2>3, <3>1, <3>4, <3>5 DEF Routed
  <2> QED
    BY <2>1, <2>2, <2>3
<1> QED
  BY <1>1, <1>4 DEF Routed, FromOthers

LEMMA ConnectRouted ==
  ASSUME ClockInv, Routed, NEW task \in Tasks, Connect(task)
  PROVE  Routed'
<1> DEFINE new == [to |-> task[2], data |-> <<>>, open |-> TRUE, handling |-> NoUpdate]
<1>1. /\ streams' = Append(streams, new) /\ link' = [link EXCEPT ![task] = Len(streams) + 1]
      /\ UNCHANGED committed
  BY DEF Connect, managerVars
<1>2. FromOthers(new) /\ new.to = task[2]
  BY DEF FromOthers
<1> HIDE DEF new
<1>3. PICK N \in Nat : N = Len(streams) /\ DOMAIN streams = 1..N
  BY StreamTypes
<1>4. /\ DOMAIN streams' = 1..(N + 1) /\ streams'[N + 1] = new
      /\ \A s \in 1..N : streams'[s] = streams[s]
  <2>1. streams \in Seq(Stream)
    BY DEF ClockInv, UpdatesKnown
  <2> QED
    BY <1>1, <1>3, <2>1
<1>5. \A s \in DOMAIN streams' : FromOthers(streams'[s])
  BY <1>2, <1>3, <1>4 DEF Routed
<1>6. ASSUME NEW t \in Tasks, link'[t] # 0 PROVE streams'[link'[t]].to = t[2]
  <2>1. link \in [Tasks -> Nat] /\ (link[t] # 0 => link[t] \in 1..N)
    BY <1>3 DEF ClockInv, UpdatesKnown
  <2>2. CASE t = task
    BY <1>1, <1>2, <1>3, <1>4, <2>1, <2>2
  <2>3. CASE t # task
    BY <1>1, <1>4, <1>6, <2>1, <2>3 DEF Routed
  <2> QED
    BY <2>2, <2>3
<1>7. \A n \in NodeId : \A i \in DOMAIN committed'[n] : committed'[n][i].origin = <<n>>
  BY <1>1 DEF Routed
<1> QED
  BY <1>5, <1>6, <1>7 DEF Routed, FromOthers

\* The connection a task writes its updates to, with one more.
Written(task) ==
  [streams[link[task]] EXCEPT !.data = Append(streams[link[task]].data, Head(queue[task]))]

LEMMA WriteSays ==
  ASSUME ClockInv, Routed, NEW task \in Tasks, Write(task)
  PROVE  /\ link[task] \in DOMAIN streams /\ streams' = [streams EXCEPT ![link[task]] = Written(task)]
         /\ Written(task).to = task[2] /\ streams[link[task]].to = task[2]
         /\ Written(task).handling = streams[link[task]].handling
         /\ Written(task).data = Append(streams[link[task]].data, Head(queue[task]))
         /\ Head(queue[task]) \in KnownUpdate /\ Head(queue[task]).origin = <<task[1]>>
         /\ queue[task] \in Seq(KnownUpdate) /\ queue[task] # <<>>
         /\ queue' = [queue EXCEPT ![task] = Tail(queue[task])]
         /\ UNCHANGED <<clock, committed, applied, unsent, lost, link>>
<1> DEFINE i == link[task]
           v == Head(queue[task])
<1>1. /\ i # 0 /\ queue[task] # <<>> /\ v.origin = <<task[1]>>
      /\ queue' = [queue EXCEPT ![task] = Tail(queue[task])]
      /\ streams' = [streams EXCEPT ![i].data = Append(@, v)]
      /\ UNCHANGED <<clock, committed, applied, unsent, lost, link>>
  BY DEF Write, TakeNext, Own, managerVars
<1>2. i \in DOMAIN streams /\ streams[i].to = task[2] /\ queue[task] \in Seq(KnownUpdate)
  BY <1>1 DEF ClockInv, UpdatesKnown, Routed
<1>3. v \in KnownUpdate
  BY <1>1, <1>2
<1>4. streams[i] \in Stream
  BY <1>2, StreamTypes
<1>5. /\ Written(task).to = streams[i].to /\ Written(task).handling = streams[i].handling
      /\ Written(task).data = Append(streams[i].data, v)
  BY <1>4 DEF Written, Stream
<1>6. streams' = [streams EXCEPT ![i] = Written(task)]
  BY <1>1 DEF Written
<1> QED
  BY <1>1, <1>2, <1>3, <1>5, <1>6

LEMMA WriteRouted ==
  ASSUME ClockInv, Routed, NEW task \in Tasks, Write(task)
  PROVE  Routed'
<1>1. PICK i : i = link[task]
  OBVIOUS
<1>2. PICK c : c = Written(task)
  OBVIOUS
<1>3. PICK v : v = Head(queue[task])
  OBVIOUS
<1>4. /\ i \in DOMAIN streams /\ streams' = [streams EXCEPT ![i] = c]
      /\ c.to = task[2] /\ streams[i].to = task[2] /\ c.handling = streams[i].handling
      /\ c.data = Append(streams[i].data, v) /\ v.origin = <<task[1]>> /\ v \in KnownUpdate
      /\ UNCHANGED <<committed, link>>
  BY <1>1, <1>2, <1>3, WriteSays
<1>5. FromOthers(c)
  <2>1. FromOthers(streams[i])
    BY <1>4 DEF Routed
  <2>2. streams[i].data \in Seq(KnownUpdate)
    BY <1>4, StreamTypes
  <2>3. <<task[1]>> # <<task[2]>>
    BY DEF Tasks
  <2>4. PICK q : q = streams[i].data
    OBVIOUS
  <2>5. PICK r : r = Append(q, v)
    OBVIOUS
  <2>6. \A k \in DOMAIN r : r[k] = v \/ (k \in DOMAIN q /\ r[k] = q[k])
    BY <2>2, <2>4, <2>5
  <2>7. c.data = r
    BY <1>4, <2>4, <2>5
  <2> QED
    BY <1>4, <2>1, <2>3, <2>4, <2>6, <2>7 DEF FromOthers
<1> QED
  BY <1>4, <1>5, LineRouted

\* What the connection s becomes when its next update is read.
Reading(s) ==
  [streams[s] EXCEPT !.data = Tail(streams[s].data), !.handling = Head(streams[s].data)]

LEMMA ReceiveSays ==
  ASSUME ClockInv, NEW s \in DOMAIN streams, Receive(s)
  PROVE  /\ streams' = [streams EXCEPT ![s] = Reading(s)] /\ Reading(s).to = streams[s].to
         /\ Reading(s).data = Tail(streams[s].data) /\ Reading(s).handling = Head(streams[s].data)
         /\ streams[s].data \in Seq(KnownUpdate) /\ streams[s].data # <<>>
         /\ streams[s].handling = NoUpdate
         /\ UNCHANGED <<committed, applied, unsent, queue, lost, link, lagged>>
<1>1. /\ streams' = [streams EXCEPT ![s] = Reading(s)]
      /\ streams[s].data # <<>> /\ streams[s].handling = NoUpdate
      /\ UNCHANGED <<committed, applied, unsent, queue, lost, link, lagged>>
  BY DEF Receive, Reading
<1>2. streams[s] \in Stream /\ streams[s].data \in Seq(KnownUpdate)
  BY StreamTypes
<1>3. /\ Reading(s).to = streams[s].to
      /\ Reading(s).data = Tail(streams[s].data) /\ Reading(s).handling = Head(streams[s].data)
  BY <1>2 DEF Reading, Stream
<1> QED
  BY <1>1, <1>2, <1>3

LEMMA ReceiveRouted ==
  ASSUME ClockInv, Routed, NEW s \in DOMAIN streams, Receive(s)
  PROVE  Routed'
<1>1. PICK c : c = Reading(s)
  OBVIOUS
<1>2. PICK q : q = streams[s].data
  OBVIOUS
<1>3. /\ streams' = [streams EXCEPT ![s] = c] /\ c.to = streams[s].to
      /\ c.data = Tail(q) /\ c.handling = Head(q) /\ q \in Seq(KnownUpdate) /\ q # <<>>
      /\ UNCHANGED <<committed, link>>
  BY <1>1, <1>2, ReceiveSays
<1>4. FromOthers(c)
  <2>1. \A k \in DOMAIN q : q[k].origin # <<c.to>>
    BY <1>2, <1>3 DEF Routed, FromOthers
  <2>2. Head(q) = q[1] /\ 1 \in DOMAIN q /\ \A k \in DOMAIN Tail(q) : Tail(q)[k] = q[k + 1] /\ k + 1 \in DOMAIN q
    BY <1>3
  <2> QED
    BY <1>3, <2>1, <2>2 DEF FromOthers
<1> QED
  BY <1>3, <1>4, LineRouted

\* What it becomes when the update was applied.
Ready(s) == [streams[s] EXCEPT !.handling = NoUpdate]

LEMMA ApplySays ==
  ASSUME ClockInv, NEW s \in DOMAIN streams, ApplyAndForward(s)
  PROVE  /\ streams' = [streams EXCEPT ![s] = Ready(s)] /\ Ready(s).to = streams[s].to
         /\ Ready(s).data = streams[s].data /\ Ready(s).handling = NoUpdate
         /\ streams[s].handling # NoUpdate /\ streams[s].handling \in KnownUpdate
         /\ streams[s].to \in NodeId /\ Send(streams[s].to, streams[s].handling)
         /\ \/ /\ applied' = [applied EXCEPT ![streams[s].to] =
                                Append(applied[streams[s].to], streams[s].handling)]
               /\ lost' = lost \cup Overwritten(streams[s].to)
            \/ /\ applied' = applied
               /\ lost' = lost \cup Overwritten(streams[s].to) \cup {<<streams[s].handling, streams[s].to>>}
         /\ UNCHANGED <<committed, unsent, link, clock>>
<1> DEFINE n == streams[s].to
           u == streams[s].handling
           r == ApplyUpdateToState(state[n], u)
<1>1. /\ streams' = [streams EXCEPT ![s] = Ready(s)]
      /\ u # NoUpdate /\ Send(n, u)
      /\ applied' = [applied EXCEPT ![n] = IF r.ok THEN Append(@, u) ELSE @]
      /\ lost' = lost \cup Overwritten(n) \cup (IF r.ok THEN {} ELSE {<<u, n>>})
      /\ UNCHANGED <<committed, unsent, link, clock>>
  BY DEF ApplyAndForward, Ready
<1>2. streams[s] \in Stream /\ n \in NodeId /\ u \in KnownUpdate
  BY <1>1, StreamTypes
<1>3. /\ Ready(s).to = streams[s].to /\ Ready(s).data = streams[s].data
      /\ Ready(s).handling = NoUpdate
  BY <1>2 DEF Ready, Stream
<1>4. applied \in [NodeId -> Seq(KnownUpdate)]
  BY DEF ClockInv, UpdatesKnown
<1> HIDE DEF n, u, r
<1>5. CASE r.ok
  BY <1>1, <1>2, <1>3, <1>5 DEF n, u
<1>6. CASE ~r.ok
  <2>1. applied' = applied
    BY <1>1, <1>4, <1>6
  <2> QED
    BY <1>1, <1>2, <1>3, <1>6, <2>1 DEF n, u
<1> QED
  BY <1>5, <1>6

LEMMA ApplyRouted ==
  ASSUME ClockInv, Routed, NEW s \in DOMAIN streams, ApplyAndForward(s)
  PROVE  Routed'
<1>1. PICK c : c = Ready(s)
  OBVIOUS
<1>2. /\ streams' = [streams EXCEPT ![s] = c] /\ c.to = streams[s].to
      /\ c.data = streams[s].data /\ c.handling = NoUpdate
      /\ UNCHANGED <<committed, link>>
  BY <1>1, ApplySays
<1>3. FromOthers(c)
  BY <1>2 DEF Routed, FromOthers
<1> QED
  BY <1>2, <1>3, LineRouted

\* And when it breaks.
Broken(s, received) ==
  [streams[s] EXCEPT !.open = FALSE, !.data = SubSeq(streams[s].data, 1, received)]

LEMMA BreakSays ==
  ASSUME ClockInv, NEW s \in DOMAIN streams, NEW received \in 0..Len(streams[s].data), Break(s, received)
  PROVE  /\ streams' = [streams EXCEPT ![s] = Broken(s, received)] /\ Broken(s, received).to = streams[s].to
         /\ Broken(s, received).data = SubSeq(streams[s].data, 1, received)
         /\ Broken(s, received).handling = streams[s].handling
         /\ streams[s].data \in Seq(KnownUpdate)
         /\ lost' = lost \cup
              {<<streams[s].data[k], streams[s].to>> : k \in (received + 1)..Len(streams[s].data)}
         /\ UNCHANGED <<committed, applied, unsent, queue, link, clock, lagged>>
<1>1. /\ streams' = [streams EXCEPT ![s] = Broken(s, received)]
      /\ lost' = lost \cup
           {<<streams[s].data[k], streams[s].to>> : k \in (received + 1)..Len(streams[s].data)}
      /\ UNCHANGED <<committed, applied, unsent, queue, link, clock, lagged>>
  BY DEF Break, Broken, managerVars
<1>2. streams[s] \in Stream /\ streams[s].data \in Seq(KnownUpdate)
  BY StreamTypes
<1>3. /\ Broken(s, received).to = streams[s].to
      /\ Broken(s, received).data = SubSeq(streams[s].data, 1, received)
      /\ Broken(s, received).handling = streams[s].handling
  BY <1>2 DEF Broken, Stream
<1> QED
  BY <1>1, <1>2, <1>3

LEMMA BreakRouted ==
  ASSUME ClockInv, Routed, NEW s \in DOMAIN streams, NEW received \in 0..Len(streams[s].data),
         Break(s, received)
  PROVE  Routed'
<1>1. PICK c : c = Broken(s, received)
  OBVIOUS
<1>2. PICK q : q = streams[s].data
  OBVIOUS
<1>3. /\ streams' = [streams EXCEPT ![s] = c] /\ c.to = streams[s].to
      /\ c.data = SubSeq(q, 1, received) /\ c.handling = streams[s].handling /\ q \in Seq(KnownUpdate)
      /\ UNCHANGED <<committed, link>>
  BY <1>1, <1>2, BreakSays
<1>4. FromOthers(c)
  <2>1. \A k \in DOMAIN c.data : c.data[k] = q[k] /\ k \in DOMAIN q
    BY <1>2, <1>3, SubSeqProperties
  <2> QED
    BY <1>2, <1>3, <2>1 DEF Routed, FromOthers
<1> QED
  BY <1>3, <1>4, LineRouted

LEMMA NextRouted ==
  ASSUME ClockInv, Routed, [Next]_vars
  PROVE  Routed'
<1>1. ASSUME UNCHANGED <<committed, streams>>,
             \A task \in Tasks : link'[task] \in {0, link[task]}
      PROVE  Routed'
  BY <1>1, LinesRouted DEF Routed
<1>2. ASSUME NEW n \in NodeId, NEW u \in unsent, Broadcast(n, u) PROVE Routed'
  BY <1>1, <1>2 DEF Broadcast, managerVars
<1>3. ASSUME NEW task \in Tasks, SkipForeign(task) \/ WriteToBroken(task) \/ Disconnect(task)
      PROVE  Routed'
  <2>1. link \in [Tasks -> Nat]
    BY DEF ClockInv, UpdatesKnown
  <2>2. UNCHANGED <<committed, streams>> /\ link' \in {link, [link EXCEPT ![task] = 0]}
    BY <1>3 DEF SkipForeign, WriteToBroken, Disconnect, TakeNext, managerVars
  <2>3. \A t \in Tasks : link'[t] \in {0, link[t]}
    BY <2>1, <2>2
  <2> QED
    BY <1>1, <2>2, <2>3
<1>4. ASSUME TaskStep PROVE Routed'
  <2>1. ASSUME NEW task \in Tasks,
               Connect(task) \/ SkipForeign(task) \/ Write(task) \/ WriteToBroken(task) \/ Disconnect(task)
        PROVE  Routed'
    BY <1>3, <2>1, ConnectRouted, WriteRouted
  <2>2. ASSUME NEW s \in DOMAIN streams, Receive(s) \/ ApplyAndForward(s) PROVE Routed'
    BY <2>2, ReceiveRouted, ApplyRouted
  <2> QED
    BY <1>2, <1>4, <2>1, <2>2 DEF TaskStep
<1>5. CASE UNCHANGED vars
  BY <1>1, <1>5 DEF vars
<1> QED
  BY <1>4, <1>5, CommitRouted, BreakRouted DEF Next

-----------------------------------------------------------------------------
(* An update that is in one place stays in one *)

LEMMA FlagNat == ASSUME NEW b \in BOOLEAN PROVE Flag(b) \in {0, 1} /\ (Flag(b) = 1 <=> b)
BY DEF Flag

\* A connection that is opened carries nothing.
LEMMA ConnectCounts ==
  ASSUME ClockInv, NEW task \in Tasks, Connect(task), NEW u \in KnownUpdate, NEW m
  PROVE  OnStreams(u, m)' = OnStreams(u, m)
<1> DEFINE new == [to |-> task[2], data |-> <<>>, open |-> TRUE, handling |-> NoUpdate]
<1>1. streams' = Append(streams, new)
  BY DEF Connect
<1>2. Held(new, u) = {}
  <2>1. NoUpdate # u
    BY UpdatesDiffer
  <2> QED
    BY <2>1 DEF Held, Positions
<1> HIDE DEF new
<1>3. PICK N \in Nat : N = Len(streams) /\ DOMAIN streams = 1..N
  BY StreamTypes
<1>4. streams \in Seq(Stream)
  BY DEF ClockInv, UpdatesKnown
<1>5. PICK st : st = streams'
  OBVIOUS
<1>6. DOMAIN st = (1..N) \cup {N + 1} /\ st[N + 1] = new /\ \A s \in 1..N : st[s] = streams[s]
  BY <1>1, <1>3, <1>4, <1>5
<1>7. OnStreams(u, m)' = UNION {{s} \X Held(st[s], u) : s \in {t \in DOMAIN st : st[t].to = m}}
  BY <1>5 DEF OnStreams
<1>8. OnStreams(u, m) = UNION {{s} \X Held(streams[s], u) : s \in {t \in 1..N : streams[t].to = m}}
  BY <1>3 DEF OnStreams
<1>9. ASSUME NEW x PROVE x \in OnStreams(u, m)' <=> x \in OnStreams(u, m)
  <2>1. x \in OnStreams(u, m)' <=> \E s \in DOMAIN st : st[s].to = m /\ x \in {s} \X Held(st[s], u)
    BY <1>7
  <2>2. x \in OnStreams(u, m) <=> \E s \in 1..N : streams[s].to = m /\ x \in {s} \X Held(streams[s], u)
    BY <1>8
  <2>3. x \notin {N + 1} \X Held(st[N + 1], u)
    BY <1>2, <1>6
  <2> QED
    BY <1>6, <2>1, <2>2, <2>3
<1> QED
  BY <1>9

\* What changes neither streams nor applied.
LEMMA BroadcastOnce ==
  ASSUME ClockInv, ClockInv', NEW k \in NodeId, NEW v \in unsent, Broadcast(k, v),
         NEW n \in NodeId, NEW m \in NodeId \ {n}, NEW u \in KnownUpdate, u.origin = <<n>>,
         CopiesOf(u, n, m) = 1
  PROVE  CopiesOf(u, n, m)' = 1
<1>1. /\ v.origin = <<k>> /\ unsent' = unsent \ {v} /\ Send(k, v) /\ lost' = lost \cup Overwritten(k)
      /\ UNCHANGED <<streams, applied>> /\ v \in KnownUpdate
  BY DEF Broadcast, managerVars, ClockInv, UpdatesKnown
<1>2. /\ Cardinality(Positions(queue'[<<n, m>>], u)) + Flag(<<u, m>> \in Overwritten(k)) =
           Cardinality(Positions(queue[<<n, m>>], u)) + Flag(k = n /\ v = u)
      /\ Cardinality(Positions(queue'[<<n, m>>], u)) \in Nat
  BY <1>1, SendCounts
<1>3. v = u => k = n
  BY <1>1
<1>4. OnStreams(u, m)' = OnStreams(u, m) /\ applied'[m] = applied[m]
  BY <1>1 DEF OnStreams
<1>5. Flag(u \in unsent') + Flag(k = n /\ v = u) = Flag(u \in unsent)
  BY <1>1, <1>3 DEF Flag
<1>6. Flag(<<u, m>> \in lost') = IF <<u, m>> \in lost \/ <<u, m>> \in Overwritten(k) THEN 1 ELSE 0
  BY <1>1 DEF Flag
<1>7. CopiesOf(u, n, m) =
        InAll(Flag(u \in unsent), Cardinality(Positions(queue[<<n, m>>], u)),
              Cardinality(OnStreams(u, m)), Cardinality(Positions(applied[m], u)),
              Flag(<<u, m>> \in lost))
  BY PartsCount
<1>8. CopiesOf(u, n, m)' =
        InAll(Flag(u \in unsent'), Cardinality(Positions(queue'[<<n, m>>], u)),
              Cardinality(OnStreams(u, m)'), Cardinality(Positions(applied'[m], u)),
              Flag(<<u, m>> \in lost'))
  BY PartsNext
<1>9. /\ Cardinality(Positions(queue[<<n, m>>], u)) \in Nat
      /\ Cardinality(OnStreams(u, m)) \in Nat
      /\ Cardinality(Positions(applied[m], u)) \in Nat
  BY PartsCount
<1> QED
  BY <1>2, <1>4, <1>5, <1>6, <1>7, <1>8, <1>9 DEF InAll, Flag

\* What a task takes from its queue is no longer there.
LEMMA TakeCounts ==
  ASSUME ClockInv, NEW task \in Tasks, queue[task] # <<>>,
         queue' = [queue EXCEPT ![task] = Tail(queue[task])],
         NEW n \in NodeId, NEW m \in NodeId \ {n}, NEW u
  PROVE  /\ Cardinality(Positions(queue'[<<n, m>>], u)) + Flag(task = <<n, m>> /\ Head(queue[task]) = u) =
              Cardinality(Positions(queue[<<n, m>>], u))
         /\ Cardinality(Positions(queue'[<<n, m>>], u)) \in Nat
<1> DEFINE t == <<n, m>>
<1>1. t \in Tasks
  BY DEF Tasks
<1>2. queue \in [Tasks -> Seq(KnownUpdate)]
  BY DEF ClockInv, UpdatesKnown
<1> HIDE DEF t
<1>3. PICK q : q = queue[t]
  OBVIOUS
<1>4. q \in Seq(KnownUpdate)
  BY <1>1, <1>2, <1>3
<1>5. CASE task = t
  <2>1. /\ Cardinality(Positions(q, u)) = Flag(Head(q) = u) + Cardinality(Positions(Tail(q), u))
        /\ Cardinality(Positions(Tail(q), u)) \in Nat
    BY <1>3, <1>4, <1>5, TailCounts
  <2>2. queue'[t] = Tail(q)
    BY <1>2, <1>3, <1>5
  <2>3. Flag(task = t /\ Head(queue[task]) = u) = Flag(Head(q) = u) /\ Flag(Head(q) = u) \in Nat
    BY <1>3, <1>5 DEF Flag
  <2> QED
    BY <1>3, <2>1, <2>2, <2>3 DEF t
<1>6. CASE task # t
  <2>1. queue'[t] = q
    BY <1>1, <1>2, <1>3, <1>6
  <2>2. Cardinality(Positions(q, u)) \in Nat
    BY <1>4, PositionsFinite
  <2>3. Flag(task = t /\ Head(queue[task]) = u) = 0
    BY <1>6 DEF Flag
  <2> QED
    BY <1>3, <2>1, <2>2, <2>3 DEF t
<1> QED
  BY <1>5, <1>6

\* A task that takes what is its own takes it for its peer.
LEMMA OwnTask ==
  ASSUME NEW task \in Tasks, NEW n \in NodeId, NEW m \in NodeId \ {n}, NEW u, u.origin = <<n>>,
         NEW v, v.origin = <<task[1]>>
  PROVE  /\ task = <<n, m>> /\ v = u <=> task[2] = m /\ v = u
         /\ task \in NodeId \X NodeId
<1>1. task = <<task[1], task[2]>> /\ task \in NodeId \X NodeId
  BY DEF Tasks
<1>2. ASSUME v = u PROVE task[1] = n
  <2>1. <<task[1]>> = <<n>>
    BY <1>2
  <2> QED
    BY <2>1
<1> QED
  BY <1>1, <1>2

LEMMA SkipOnce ==
  ASSUME ClockInv, ClockInv', NEW task \in Tasks, SkipForeign(task),
         NEW n \in NodeId, NEW m \in NodeId \ {n}, NEW u \in KnownUpdate, u.origin = <<n>>,
         CopiesOf(u, n, m) = 1
  PROVE  CopiesOf(u, n, m)' = 1
<1>1. /\ queue[task] # <<>> /\ queue' = [queue EXCEPT ![task] = Tail(queue[task])]
      /\ Head(queue[task]).origin # <<task[1]>>
      /\ UNCHANGED <<unsent, streams, applied, lost>>
  BY DEF SkipForeign, TakeNext, Own, managerVars
<1>2. /\ Cardinality(Positions(queue'[<<n, m>>], u)) + Flag(task = <<n, m>> /\ Head(queue[task]) = u) =
           Cardinality(Positions(queue[<<n, m>>], u))
      /\ Cardinality(Positions(queue'[<<n, m>>], u)) \in Nat
  BY <1>1, TakeCounts
<1>3. Flag(task = <<n, m>> /\ Head(queue[task]) = u) = 0
  BY <1>1 DEF Flag
<1>4. OnStreams(u, m)' = OnStreams(u, m)
  BY <1>1 DEF OnStreams
<1>5. CopiesOf(u, n, m) =
        InAll(Flag(u \in unsent), Cardinality(Positions(queue[<<n, m>>], u)),
              Cardinality(OnStreams(u, m)), Cardinality(Positions(applied[m], u)),
              Flag(<<u, m>> \in lost))
  BY PartsCount
<1>6. CopiesOf(u, n, m)' =
        InAll(Flag(u \in unsent'), Cardinality(Positions(queue'[<<n, m>>], u)),
              Cardinality(OnStreams(u, m)'), Cardinality(Positions(applied'[m], u)),
              Flag(<<u, m>> \in lost'))
  BY PartsNext
<1>7. Cardinality(Positions(queue'[<<n, m>>], u)) = Cardinality(Positions(queue[<<n, m>>], u))
  BY <1>2, <1>3
<1> QED
  BY <1>1, <1>4, <1>5, <1>6, <1>7

LEMMA WriteOnce ==
  ASSUME ClockInv, ClockInv', Routed, NEW task \in Tasks, Write(task),
         NEW n \in NodeId, NEW m \in NodeId \ {n}, NEW u \in KnownUpdate, u.origin = <<n>>,
         CopiesOf(u, n, m) = 1
  PROVE  CopiesOf(u, n, m)' = 1
<1>1. PICK i : i = link[task]
  OBVIOUS
<1>2. PICK c : c = Written(task)
  OBVIOUS
<1>3. PICK v : v = Head(queue[task])
  OBVIOUS
<1>4. /\ i \in DOMAIN streams /\ streams' = [streams EXCEPT ![i] = c]
      /\ c.to = task[2] /\ streams[i].to = task[2] /\ c.handling = streams[i].handling
      /\ c.data = Append(streams[i].data, v) /\ v.origin = <<task[1]>> /\ v \in KnownUpdate
      /\ queue[task] # <<>> /\ queue' = [queue EXCEPT ![task] = Tail(queue[task])]
      /\ UNCHANGED <<unsent, applied, lost>>
  BY <1>1, <1>2, <1>3, WriteSays
<1>5. /\ Cardinality(Positions(queue'[<<n, m>>], u)) + Flag(task = <<n, m>> /\ Head(queue[task]) = u) =
           Cardinality(Positions(queue[<<n, m>>], u))
      /\ Cardinality(Positions(queue'[<<n, m>>], u)) \in Nat
  BY <1>4, TakeCounts
<1>6. Flag(task = <<n, m>> /\ Head(queue[task]) = u) = Flag(task[2] = m /\ v = u)
  <2>1. task = <<n, m>> /\ v = u <=> task[2] = m /\ v = u
    BY <1>4, OwnTask
  <2> QED
    BY <1>3, <2>1 DEF Flag
<1>7. Carried(i, c, u, m)
  BY <1>4, CarriedCounts
<1>8. Cardinality(Positions(c.data, u)) = Cardinality(Positions(streams[i].data, u)) + Flag(v = u)
  <2>1. PICK q : q = streams[i].data
    OBVIOUS
  <2>2. q \in Seq(KnownUpdate)
    BY <1>4, <2>1, StreamTypes
  <2>3. Cardinality(Positions(Append(q, v), u)) = Cardinality(Positions(q, u)) + Flag(v = u)
    BY <1>4, <2>2, AppendCounts
  <2> QED
    BY <1>4, <2>1, <2>3
<1>9. CopiesOf(u, n, m) =
        InAll(Flag(u \in unsent), Cardinality(Positions(queue[<<n, m>>], u)),
              Cardinality(OnStreams(u, m)), Cardinality(Positions(applied[m], u)),
              Flag(<<u, m>> \in lost))
  BY PartsCount
<1>10. CopiesOf(u, n, m)' =
        InAll(Flag(u \in unsent'), Cardinality(Positions(queue'[<<n, m>>], u)),
              Cardinality(OnStreams(u, m)'), Cardinality(Positions(applied'[m], u)),
              Flag(<<u, m>> \in lost'))
  BY PartsNext
<1>11. /\ Cardinality(Positions(queue[<<n, m>>], u)) \in Nat
       /\ Cardinality(OnStreams(u, m)) \in Nat
       /\ Cardinality(Positions(applied[m], u)) \in Nat
  BY PartsCount
<1>12. Flag(v = u) \in Nat /\ Flag(c.handling = u) \in Nat
  BY DEF Flag
<1>13. /\ task[2] = m => Flag(task[2] = m /\ v = u) = Flag(v = u)
       /\ task[2] # m => Flag(task[2] = m /\ v = u) = 0
  BY DEF Flag
<1>14. Cardinality(OnStreams(u, m)') = Cardinality(OnStreams(u, m)) + Flag(task[2] = m /\ v = u)
  BY <1>4, <1>7, <1>8, <1>12, <1>13 DEF Carried
<1>15. Cardinality(Positions(queue'[<<n, m>>], u)) + Flag(task[2] = m /\ v = u) =
         Cardinality(Positions(queue[<<n, m>>], u))
  BY <1>5, <1>6
<1>16. /\ Flag(u \in unsent') = Flag(u \in unsent) /\ applied'[m] = applied[m]
       /\ Flag(<<u, m>> \in lost') = Flag(<<u, m>> \in lost)
  BY <1>4
<1>17. Flag(task[2] = m /\ v = u) \in Nat /\ Flag(u \in unsent) \in Nat /\ Flag(<<u, m>> \in lost) \in Nat
  BY DEF Flag
<1> QED
  BY <1>5, <1>9, <1>10, <1>11, <1>14, <1>15, <1>16, <1>17 DEF InAll

LEMMA BrokenWriteOnce ==
  ASSUME ClockInv, ClockInv', NEW task \in Tasks, WriteToBroken(task),
         NEW n \in NodeId, NEW m \in NodeId \ {n}, NEW u \in KnownUpdate, u.origin = <<n>>,
         CopiesOf(u, n, m) = 1
  PROVE  CopiesOf(u, n, m)' = 1
<1>1. PICK v : v = Head(queue[task])
  OBVIOUS
<1>2. /\ queue[task] # <<>> /\ queue' = [queue EXCEPT ![task] = Tail(queue[task])]
      /\ v.origin = <<task[1]>> /\ lost' = lost \cup {<<v, task[2]>>}
      /\ UNCHANGED <<unsent, streams, applied>>
  BY <1>1 DEF WriteToBroken, TakeNext, Own, managerVars
<1>3. /\ Cardinality(Positions(queue'[<<n, m>>], u)) + Flag(task = <<n, m>> /\ Head(queue[task]) = u) =
           Cardinality(Positions(queue[<<n, m>>], u))
      /\ Cardinality(Positions(queue'[<<n, m>>], u)) \in Nat
  BY <1>2, TakeCounts
<1>4. Flag(task = <<n, m>> /\ Head(queue[task]) = u) = Flag(task[2] = m /\ v = u)
  <2>1. task = <<n, m>> /\ v = u <=> task[2] = m /\ v = u
    BY <1>2, OwnTask
  <2> QED
    BY <1>1, <2>1 DEF Flag
<1>5. <<u, m>> \in lost' <=> <<u, m>> \in lost \/ (task[2] = m /\ v = u)
  BY <1>2
<1>6. OnStreams(u, m)' = OnStreams(u, m) /\ Flag(u \in unsent') = Flag(u \in unsent) /\ applied'[m] = applied[m]
  BY <1>2 DEF OnStreams
<1>7. CopiesOf(u, n, m) =
        InAll(Flag(u \in unsent), Cardinality(Positions(queue[<<n, m>>], u)),
              Cardinality(OnStreams(u, m)), Cardinality(Positions(applied[m], u)),
              Flag(<<u, m>> \in lost))
  BY PartsCount
<1>8. CopiesOf(u, n, m)' =
        InAll(Flag(u \in unsent'), Cardinality(Positions(queue'[<<n, m>>], u)),
              Cardinality(OnStreams(u, m)'), Cardinality(Positions(applied'[m], u)),
              Flag(<<u, m>> \in lost'))
  BY PartsNext
<1>9. /\ Cardinality(Positions(queue[<<n, m>>], u)) \in Nat
      /\ Cardinality(OnStreams(u, m)) \in Nat
      /\ Cardinality(Positions(applied[m], u)) \in Nat
  BY PartsCount
<1>10. Flag(u \in unsent) \in Nat
  BY DEF Flag
<1>11. Cardinality(Positions(queue'[<<n, m>>], u)) + Flag(task[2] = m /\ v = u) =
         Cardinality(Positions(queue[<<n, m>>], u))
  BY <1>3, <1>4
<1> QED
  BY <1>3, <1>5, <1>6, <1>7, <1>8, <1>9, <1>10, <1>11 DEF InAll, Flag

\* What changes none of the places.
LEMMA StillOnce ==
  ASSUME NEW n, NEW m, NEW u, CopiesOf(u, n, m) = 1, UNCHANGED <<unsent, queue, streams, applied, lost>>
  PROVE  CopiesOf(u, n, m)' = 1
BY DEF CopiesOf, OnStreams

LEMMA ConnectOnce ==
  ASSUME ClockInv, NEW task \in Tasks, Connect(task), NEW n, NEW m, NEW u \in KnownUpdate,
         CopiesOf(u, n, m) = 1
  PROVE  CopiesOf(u, n, m)' = 1
<1>1. OnStreams(u, m)' = OnStreams(u, m)
  BY ConnectCounts
<1>2. UNCHANGED <<unsent, queue, applied, lost>>
  BY DEF Connect, managerVars
<1> QED
  BY <1>1, <1>2 DEF CopiesOf

\* receive_update takes the oldest of the connection into its hands.
LEMMA ReceiveOnce ==
  ASSUME ClockInv, ClockInv', NEW s \in DOMAIN streams, Receive(s),
         NEW n \in NodeId, NEW m \in NodeId \ {n}, NEW u \in KnownUpdate, CopiesOf(u, n, m) = 1
  PROVE  CopiesOf(u, n, m)' = 1
<1>1. PICK c : c = Reading(s)
  OBVIOUS
<1>2. PICK q : q = streams[s].data
  OBVIOUS
<1>3. /\ streams' = [streams EXCEPT ![s] = c] /\ c.to = streams[s].to
      /\ c.data = Tail(q) /\ c.handling = Head(q) /\ q \in Seq(KnownUpdate) /\ q # <<>>
      /\ streams[s].handling = NoUpdate
      /\ UNCHANGED <<applied, unsent, queue, lost>>
  BY <1>1, <1>2, ReceiveSays
<1>4. Carried(s, c, u, m)
  BY <1>3, CarriedCounts
<1>5. /\ Cardinality(Positions(q, u)) = Flag(Head(q) = u) + Cardinality(Positions(Tail(q), u))
      /\ Cardinality(Positions(Tail(q), u)) \in Nat
  BY <1>3, TailCounts
<1>6. Flag(streams[s].handling = u) = 0
  <2>1. NoUpdate # u
    BY UpdatesDiffer
  <2> QED
    BY <1>3, <2>1 DEF Flag
<1>7. Flag(Head(q) = u) \in Nat
  BY DEF Flag
<1>8. Cardinality(OnStreams(u, m)') = Cardinality(OnStreams(u, m))
  <2>1. /\ Flag(c.handling = u) = Flag(Head(q) = u)
        /\ Cardinality(Positions(c.data, u)) = Cardinality(Positions(Tail(q), u))
        /\ Cardinality(Positions(streams[s].data, u)) = Cardinality(Positions(q, u))
    BY <1>2, <1>3
  <2>2. HeldFor(c, u, m) = HeldFor(streams[s], u, m)
    <3>1. CASE c.to = m
      BY <1>3, <1>4, <1>5, <1>6, <1>7, <2>1, <3>1 DEF Carried
    <3>2. CASE c.to # m
      BY <1>4, <3>2 DEF Carried
    <3> QED
      BY <3>1, <3>2
  <2>3. HeldFor(c, u, m) \in Nat
    BY <1>4, <1>5, <1>7, <2>1 DEF Carried
  <2> QED
    BY <1>4, <2>2, <2>3 DEF Carried
<1> QED
  BY <1>3, <1>8 DEF CopiesOf

\* What is handled becomes applied or refused; the queues that it is forwarded
\* to belong to a node that did not make it.
LEMMA ApplyOnce ==
  ASSUME ClockInv, ClockInv', Routed, NEW s \in DOMAIN streams, ApplyAndForward(s),
         NEW n \in NodeId, NEW m \in NodeId \ {n}, NEW u \in KnownUpdate, u.origin = <<n>>,
         CopiesOf(u, n, m) = 1
  PROVE  CopiesOf(u, n, m)' = 1
<1>1. PICK c : c = Ready(s)
  OBVIOUS
<1>2. PICK k : k = streams[s].to
  OBVIOUS
<1>3. PICK v : v = streams[s].handling
  OBVIOUS
<1>4. /\ streams' = [streams EXCEPT ![s] = c] /\ c.to = k /\ c.to = streams[s].to
      /\ c.data = streams[s].data /\ c.handling = NoUpdate
      /\ v # NoUpdate /\ v \in KnownUpdate /\ k \in NodeId /\ Send(k, v)
      /\ \/ applied' = [applied EXCEPT ![k] = Append(applied[k], v)] /\ lost' = lost \cup Overwritten(k)
         \/ applied' = applied /\ lost' = lost \cup Overwritten(k) \cup {<<v, k>>}
      /\ UNCHANGED unsent
  BY <1>1, <1>2, <1>3, ApplySays
<1>5. ~(k = n /\ v = u)
  <2>1. v.origin # <<k>>
    BY <1>2, <1>3, <1>4 DEF Routed, FromOthers
  <2> QED
    BY <2>1
<1>6. /\ Cardinality(Positions(queue'[<<n, m>>], u)) + Flag(<<u, m>> \in Overwritten(k)) =
           Cardinality(Positions(queue[<<n, m>>], u)) + Flag(k = n /\ v = u)
      /\ Cardinality(Positions(queue'[<<n, m>>], u)) \in Nat
  BY <1>4, SendCounts
<1>7. Flag(k = n /\ v = u) = 0
  BY <1>5 DEF Flag
<1>8. Carried(s, c, u, m)
  BY <1>4, CarriedCounts
<1>9. Flag(c.handling = u) = 0
  <2>1. NoUpdate # u
    BY UpdatesDiffer
  <2> QED
    BY <1>4, <2>1 DEF Flag
<1>10. Cardinality(OnStreams(u, m)') + Flag(k = m /\ v = u) = Cardinality(OnStreams(u, m))
  <2>1. Cardinality(Positions(c.data, u)) = Cardinality(Positions(streams[s].data, u))
    BY <1>4
  <2>2. Flag(streams[s].handling = u) = Flag(v = u) /\ Flag(v = u) \in Nat
    BY <1>3 DEF Flag
  <2>3. CASE k = m
    <3>1. Flag(k = m /\ v = u) = Flag(v = u)
      BY <2>3 DEF Flag
    <3>2. /\ HeldFor(c, u, m) = Cardinality(Positions(c.data, u))
          /\ Cardinality(Positions(c.data, u)) \in Nat
      <4>1. /\ HeldFor(c, u, m) = Flag(c.handling = u) + Cardinality(Positions(c.data, u))
            /\ Cardinality(Positions(c.data, u)) \in Nat
        BY <1>4, <1>8, <2>3 DEF Carried
      <4> QED
        BY <1>9, <4>1
    <3>3. HeldFor(streams[s], u, m) = Flag(v = u) + Cardinality(Positions(c.data, u))
      BY <1>2, <1>8, <2>1, <2>2, <2>3 DEF Carried
    <3>4. /\ Cardinality(OnStreams(u, m)') =
               Cardinality(OnStreams(u, m)) + HeldFor(c, u, m) - HeldFor(streams[s], u, m)
          /\ Cardinality(OnStreams(u, m)) \in Nat
      BY <1>8 DEF Carried
    <3> QED
      BY <2>2, <3>1, <3>2, <3>3, <3>4
  <2>4. CASE k # m
    <3>1. Flag(k = m /\ v = u) = 0
      BY <2>4 DEF Flag
    <3> QED
      BY <1>4, <1>8, <2>4, <3>1 DEF Carried
  <2> QED
    BY <2>3, <2>4
<1>11. Cardinality(OnStreams(u, m)') \in Nat
  <2>1. Flag(k = m /\ v = u) <= Cardinality(OnStreams(u, m))
    <3>1. CASE k = m
      BY <1>3, <1>4, <1>8, <3>1 DEF Carried, Flag
    <3>2. CASE k # m
      BY <1>8, <3>2 DEF Carried, Flag
    <3> QED
      BY <3>1, <3>2
  <2>2. Flag(k = m /\ v = u) \in Nat /\ Cardinality(OnStreams(u, m)) \in Nat
    BY <1>8 DEF Carried, Flag
  <2>3. Cardinality(OnStreams(u, m)') \in Int
    BY <1>4, <1>8, <1>9, <2>2 DEF Carried, HeldFor, Flag
  <2> QED
    BY <1>10, <2>1, <2>2, <2>3
<1>12. CopiesOf(u, n, m) =
        InAll(Flag(u \in unsent), Cardinality(Positions(queue[<<n, m>>], u)),
              Cardinality(OnStreams(u, m)), Cardinality(Positions(applied[m], u)),
              Flag(<<u, m>> \in lost))
  BY PartsCount
<1>13. CopiesOf(u, n, m)' =
        InAll(Flag(u \in unsent'), Cardinality(Positions(queue'[<<n, m>>], u)),
              Cardinality(OnStreams(u, m)'), Cardinality(Positions(applied'[m], u)),
              Flag(<<u, m>> \in lost'))
  BY PartsNext
<1>14. /\ Cardinality(Positions(queue[<<n, m>>], u)) \in Nat
       /\ Cardinality(OnStreams(u, m)) \in Nat
       /\ Cardinality(Positions(applied[m], u)) \in Nat
       /\ applied[m] \in Seq(KnownUpdate)
  BY PartsCount
<1>15. Flag(u \in unsent') = Flag(u \in unsent) /\ Flag(u \in unsent) \in Nat
  BY <1>4 DEF Flag
<1>16. applied \in [NodeId -> Seq(KnownUpdate)]
  BY DEF ClockInv, UpdatesKnown
<1>17. CASE applied' = [applied EXCEPT ![k] = Append(applied[k], v)] /\ lost' = lost \cup Overwritten(k)
  <2>1. Cardinality(Positions(applied'[m], u)) = Cardinality(Positions(applied[m], u)) + Flag(k = m /\ v = u)
    <3>1. CASE k = m
      <4>1. PICK q : q = applied[m]
        OBVIOUS
      <4>2. q \in Seq(KnownUpdate)
        BY <1>14, <4>1
      <4>3. Cardinality(Positions(Append(q, v), u)) = Cardinality(Positions(q, u)) + Flag(v = u)
        BY <1>4, <4>2, AppendCounts
      <4>4. applied'[m] = Append(q, v)
        BY <1>16, <1>17, <3>1, <4>1
      <4>5. Flag(k = m /\ v = u) = Flag(v = u)
        BY <3>1 DEF Flag
      <4> QED
        BY <4>1, <4>3, <4>4, <4>5
    <3>2. CASE k # m
      <4>1. applied'[m] = applied[m] /\ Flag(k = m /\ v = u) = 0
        BY <1>16, <1>17, <3>2 DEF Flag
      <4> QED
        BY <1>14, <4>1
    <3> QED
      BY <3>1, <3>2
  <2>2. Flag(<<u, m>> \in lost') = IF <<u, m>> \in lost \/ <<u, m>> \in Overwritten(k) THEN 1 ELSE 0
    BY <1>17 DEF Flag
  <2> QED
    BY <1>6, <1>7, <1>10, <1>11, <1>12, <1>13, <1>14, <1>15, <2>1, <2>2 DEF InAll, Flag
<1>18. CASE applied' = applied /\ lost' = lost \cup Overwritten(k) \cup {<<v, k>>}
  <2>1. Flag(<<u, m>> \in lost') =
          IF <<u, m>> \in lost \/ <<u, m>> \in Overwritten(k) \/ (k = m /\ v = u) THEN 1 ELSE 0
    BY <1>18 DEF Flag
  <2>2. Cardinality(Positions(applied'[m], u)) = Cardinality(Positions(applied[m], u))
    BY <1>18
  <2> QED
    BY <1>6, <1>7, <1>10, <1>11, <1>12, <1>13, <1>14, <1>15, <2>1, <2>2 DEF InAll, Flag
<1> QED
  BY <1>4, <1>17, <1>18

\* What was written last to a connection that breaks is lost.
LEMMA BreakOnce ==
  ASSUME ClockInv, ClockInv', NEW s \in DOMAIN streams, NEW received \in 0..Len(streams[s].data),
         Break(s, received),
         NEW n \in NodeId, NEW m \in NodeId \ {n}, NEW u \in KnownUpdate, CopiesOf(u, n, m) = 1
  PROVE  CopiesOf(u, n, m)' = 1
<1>1. PICK c : c = Broken(s, received)
  OBVIOUS
<1>2. PICK q : q = streams[s].data
  OBVIOUS
<1>3. PICK k : k = streams[s].to
  OBVIOUS
<1>4. /\ streams' = [streams EXCEPT ![s] = c] /\ c.to = k /\ c.to = streams[s].to
      /\ c.data = SubSeq(q, 1, received) /\ c.handling = streams[s].handling
      /\ q \in Seq(KnownUpdate)
      /\ lost' = lost \cup {<<q[i], k>> : i \in (received + 1)..Len(q)}
      /\ UNCHANGED <<applied, unsent, queue>>
  BY <1>1, <1>2, <1>3, BreakSays
<1>5. Carried(s, c, u, m)
  BY <1>4, CarriedCounts
<1>6. /\ Cardinality(Positions(q, u)) =
           Cardinality(Positions(SubSeq(q, 1, received), u)) + Cardinality(Rest(q, received, u))
      /\ IsFiniteSet(Rest(q, received, u))
      /\ Cardinality(Positions(SubSeq(q, 1, received), u)) \in Nat
  <2>1. received \in 0..Len(q)
    BY <1>2
  <2> QED
    BY <1>4, <2>1, CutCounts
<1>7. PICK r : r = Cardinality(Rest(q, received, u))
  OBVIOUS
<1>8. r \in Nat /\ (r = 0 <=> Rest(q, received, u) = {})
  BY <1>6, <1>7, CountSome
<1>9. <<u, m>> \in lost' <=> <<u, m>> \in lost \/ (k = m /\ r # 0)
  <2>1. <<u, m>> \in {<<q[i], k>> : i \in (received + 1)..Len(q)} <=> k = m /\ Rest(q, received, u) # {}
    BY DEF Rest
  <2> QED
    BY <1>4, <1>8, <2>1
<1>10. CopiesOf(u, n, m) =
        InAll(Flag(u \in unsent), Cardinality(Positions(queue[<<n, m>>], u)),
              Cardinality(OnStreams(u, m)), Cardinality(Positions(applied[m], u)),
              Flag(<<u, m>> \in lost))
  BY PartsCount
<1>11. CopiesOf(u, n, m)' =
        InAll(Flag(u \in unsent'), Cardinality(Positions(queue'[<<n, m>>], u)),
              Cardinality(OnStreams(u, m)'), Cardinality(Positions(applied'[m], u)),
              Flag(<<u, m>> \in lost'))
  BY PartsNext
<1>12. /\ Cardinality(Positions(queue[<<n, m>>], u)) \in Nat
       /\ Cardinality(OnStreams(u, m)) \in Nat
       /\ Cardinality(Positions(applied[m], u)) \in Nat
  BY PartsCount
<1>13. /\ Flag(u \in unsent') = Flag(u \in unsent) /\ Flag(u \in unsent) \in Nat
       /\ queue' = queue /\ applied' = applied
  BY <1>4 DEF Flag
<1>14. /\ Cardinality(Positions(c.data, u)) + r = Cardinality(Positions(streams[s].data, u))
       /\ Flag(c.handling = u) = Flag(streams[s].handling = u) /\ Flag(c.handling = u) \in Nat
  BY <1>2, <1>4, <1>6, <1>7, <1>8 DEF Flag
<1>15. CASE k = m
  <2>1. /\ Cardinality(OnStreams(u, m)') + r = Cardinality(OnStreams(u, m))
        /\ Cardinality(OnStreams(u, m)') \in Nat
    <3>1. /\ HeldFor(c, u, m) = Flag(c.handling = u) + Cardinality(Positions(c.data, u))
          /\ Cardinality(Positions(c.data, u)) \in Nat
      BY <1>4, <1>5, <1>15 DEF Carried
    <3>2. HeldFor(streams[s], u, m) = Flag(c.handling = u) + Cardinality(Positions(c.data, u)) + r
      <4>1. HeldFor(streams[s], u, m) =
              Flag(streams[s].handling = u) + Cardinality(Positions(streams[s].data, u))
        BY <1>3, <1>5, <1>15 DEF Carried
      <4> QED
        BY <1>8, <1>14, <3>1, <4>1
    <3>3. /\ Cardinality(OnStreams(u, m)') =
               Cardinality(OnStreams(u, m)) + HeldFor(c, u, m) - HeldFor(streams[s], u, m)
          /\ Cardinality(OnStreams(u, m)) \in Nat
          /\ Cardinality(OnStreams(u, m)) >= HeldFor(streams[s], u, m)
      BY <1>5 DEF Carried
    <3> QED
      BY <1>8, <1>14, <3>1, <3>2, <3>3
  <2>2. Flag(<<u, m>> \in lost) \in Nat
    BY DEF Flag
  <2>3. r = 0 \/ (r = 1 /\ <<u, m>> \notin lost)
    <3>1. Flag(<<u, m>> \in lost) + r <= 1
      BY <1>8, <1>10, <1>12, <1>13, <2>1, <2>2 DEF InAll
    <3> QED
      BY <1>8, <3>1 DEF Flag
  <2>4. Flag(<<u, m>> \in lost') = Flag(<<u, m>> \in lost) + r
    BY <1>9, <1>15, <2>3 DEF Flag
  <2> QED
    BY <1>8, <1>10, <1>11, <1>12, <1>13, <2>1, <2>2, <2>4 DEF InAll
<1>16. CASE k # m
  <2>1. Cardinality(OnStreams(u, m)') = Cardinality(OnStreams(u, m))
    BY <1>4, <1>5, <1>16 DEF Carried
  <2>2. Flag(<<u, m>> \in lost') = Flag(<<u, m>> \in lost)
    BY <1>9, <1>16 DEF Flag
  <2> QED
    BY <1>10, <1>11, <1>13, <2>1, <2>2
<1> QED
  BY <1>15, <1>16

\* A commit adds to what its own node applied and to what that has to send; it
\* is no update that was anywhere before.
LEMMA CommitIsNew ==
  ASSUME ClockInv, NEW k \in NodeId, NEW tx \in Transactions, CommitLocally(k, tx)
  PROVE  \E v \in Update : CommitMakes(k, v) /\ v.origin = <<k>> /\ v \notin KnownUpdate
<1> DEFINE c == Tick(clock[k], k)
           v == [operations |-> tx, clock |-> c, origin |-> <<k>>]
<1>1. CommitMakes(k, v)
  BY CommitSays
<1>2. IsClock(clock[k])
  BY ClockIsClock DEF ClockInv, UpdatesKnown
<1>3. c \in Clock /\ Time(c, k) = Time(clock[k], k) + 1 /\ Time(clock[k], k) \in Nat
  BY <1>2, ClockIsClock, TickTime, TimeType
<1>4. v \in Update /\ v.clock = c /\ v.origin = <<k>>
  BY <1>3 DEF Update
<1> HIDE DEF v
<1>5. v \notin KnownUpdate
  BY <1>3, <1>4 DEF KnownUpdate
<1> QED
  BY <1>1, <1>4, <1>5

LEMMA CommitOnce ==
  ASSUME ClockInv, NEW k \in NodeId, NEW v \in Update, v \notin KnownUpdate, CommitMakes(k, v),
         UNCHANGED <<queue, streams, lost>>,
         NEW n \in NodeId, NEW m \in NodeId \ {n}, NEW u \in KnownUpdate, CopiesOf(u, n, m) = 1
  PROVE  CopiesOf(u, n, m)' = 1
<1>1. applied \in [NodeId -> Seq(KnownUpdate)] /\ v # u
  BY DEF ClockInv, UpdatesKnown
<1>2. Flag(u \in unsent') = Flag(u \in unsent)
  BY <1>1 DEF CommitMakes, Flag
<1>3. Cardinality(Positions(applied'[m], u)) = Cardinality(Positions(applied[m], u))
  <2>1. applied'[m] = applied[m] \/ applied'[m] = Append(applied[m], v)
    BY <1>1 DEF CommitMakes
  <2>2. CASE applied'[m] = Append(applied[m], v)
    <3>1. PICK q : q = applied[m]
      OBVIOUS
    <3>2. PICK r : r = Append(q, v)
      OBVIOUS
    <3>3. q \in Seq(Update)
      <4>1. q \in Seq(KnownUpdate)
        BY <1>1, <3>1
      <4> QED
        BY <4>1, UpdatesDiffer, SeqStays
    <3>4. Cardinality(Positions(Append(q, v), u)) = Cardinality(Positions(q, u)) + Flag(v = u)
      BY <3>3, AppendCounts
    <3>5. Flag(v = u) = 0 /\ Cardinality(Positions(q, u)) \in Nat
      BY <1>1, <3>3, PositionsFinite DEF Flag
    <3> QED
      BY <2>2, <3>1, <3>4, <3>5
  <2> QED
    BY <2>1, <2>2
<1>4. OnStreams(u, m)' = OnStreams(u, m)
  BY DEF OnStreams
<1>5. CopiesOf(u, n, m) =
        InAll(Flag(u \in unsent), Cardinality(Positions(queue[<<n, m>>], u)),
              Cardinality(OnStreams(u, m)), Cardinality(Positions(applied[m], u)),
              Flag(<<u, m>> \in lost))
  BY PartsCount
<1>6. CopiesOf(u, n, m)' =
        InAll(Flag(u \in unsent'), Cardinality(Positions(queue'[<<n, m>>], u)),
              Cardinality(OnStreams(u, m)'), Cardinality(Positions(applied'[m], u)),
              Flag(<<u, m>> \in lost'))
  BY PartsNext
<1> QED
  BY <1>2, <1>3, <1>4, <1>5, <1>6

\* The commit itself is in the hands of its caller, who has yet to send it.
LEMMA NewOnce ==
  ASSUME ClockInv, NEW k \in NodeId, NEW v \in Update, v \notin KnownUpdate, CommitMakes(k, v),
         UNCHANGED <<queue, streams, lost>>, NEW m \in NodeId \ {k}, v \in unsent'
  PROVE  CopiesOf(v, k, m)' = 1
<1>1. <<k, m>> \in Tasks
  BY DEF Tasks
<1>2. queue[<<k, m>>] \in Seq(KnownUpdate) /\ applied[m] \in Seq(KnownUpdate)
  BY <1>1 DEF ClockInv, UpdatesKnown
<1>3. ASSUME NEW q \in Seq(KnownUpdate) PROVE Positions(q, v) = {} /\ Cardinality(Positions(q, v)) = 0
  <2>1. Positions(q, v) = {}
    BY <1>3 DEF Positions
  <2> QED
    BY <2>1, FS_EmptySet
<1>4. Cardinality(OnStreams(v, m)') = 0
  <2>1. ASSUME NEW s \in DOMAIN streams PROVE Held(streams[s], v) = {}
    <3>1. streams[s].data \in Seq(KnownUpdate) /\ streams[s].handling \in KnownUpdate \cup {NoUpdate}
      BY StreamTypes
    <3>2. Positions(streams[s].data, v) = {}
      BY <1>3, <3>1
    <3>3. streams[s].handling # v
      BY <3>1, NetworkAssumption
    <3> QED
      BY <3>2, <3>3 DEF Held
  <2>2. OnStreams(v, m) = {}
    BY <2>1 DEF OnStreams
  <2>3. OnStreams(v, m)' = {}
    BY <2>2 DEF OnStreams
  <2> QED
    BY <2>3, FS_EmptySet
<1>5. applied'[m] = applied[m]
  BY DEF CommitMakes, ClockInv, UpdatesKnown
<1>6. <<v, m>> \notin lost'
  BY DEF ClockInv, UpdatesKnown
<1>7. CopiesOf(v, k, m)' =
        InAll(Flag(v \in unsent'), Cardinality(Positions(queue'[<<k, m>>], v)),
              Cardinality(OnStreams(v, m)'), Cardinality(Positions(applied'[m], v)),
              Flag(<<v, m>> \in lost'))
  BY PartsNext
<1>8. Cardinality(Positions(queue'[<<k, m>>], v)) = 0 /\ Cardinality(Positions(applied'[m], v)) = 0
  BY <1>2, <1>3, <1>5
<1>9. Flag(v \in unsent') = 1 /\ Flag(<<v, m>> \in lost') = 0
  BY <1>6 DEF Flag
<1> QED
  BY <1>4, <1>7, <1>8, <1>9 DEF InAll

\* What happens to commits that were made already.
LEMMA StepOnce ==
  ASSUME ClockInv, ClockInv', Routed, [Next]_vars,
         NEW n \in NodeId, NEW m \in NodeId \ {n}, NEW u \in KnownUpdate, u.origin = <<n>>,
         CopiesOf(u, n, m) = 1
  PROVE  CopiesOf(u, n, m)' = 1
<1>1. CASE TaskStep
  <2>1. ASSUME NEW k \in NodeId, NEW v \in unsent, Broadcast(k, v) PROVE CopiesOf(u, n, m)' = 1
    BY <2>1, BroadcastOnce
  <2>2. ASSUME NEW task \in Tasks, Connect(task) PROVE CopiesOf(u, n, m)' = 1
    BY <2>2, ConnectOnce
  <2>3. ASSUME NEW task \in Tasks, SkipForeign(task) PROVE CopiesOf(u, n, m)' = 1
    BY <2>3, SkipOnce
  <2>4. ASSUME NEW task \in Tasks, Write(task) PROVE CopiesOf(u, n, m)' = 1
    BY <2>4, WriteOnce
  <2>5. ASSUME NEW task \in Tasks, WriteToBroken(task) PROVE CopiesOf(u, n, m)' = 1
    BY <2>5, BrokenWriteOnce
  <2>6. ASSUME NEW task \in Tasks, Disconnect(task) PROVE CopiesOf(u, n, m)' = 1
    <3>1. UNCHANGED <<unsent, queue, streams, applied, lost>>
      BY <2>6 DEF Disconnect, managerVars
    <3> QED
      BY <3>1, StillOnce
  <2>7. ASSUME NEW s \in DOMAIN streams, Receive(s) PROVE CopiesOf(u, n, m)' = 1
    BY <2>7, ReceiveOnce
  <2>8. ASSUME NEW s \in DOMAIN streams, ApplyAndForward(s) PROVE CopiesOf(u, n, m)' = 1
    BY <2>8, ApplyOnce
  <2> QED
    BY <1>1, <2>1, <2>2, <2>3, <2>4, <2>5, <2>6, <2>7, <2>8 DEF TaskStep
<1>2. ASSUME NEW k \in NodeId, NEW tx \in Transactions, CommitLocally(k, tx) PROVE CopiesOf(u, n, m)' = 1
  <2>1. PICK v \in Update : CommitMakes(k, v) /\ v \notin KnownUpdate
    BY <1>2, CommitIsNew
  <2>2. UNCHANGED <<queue, streams, lost>>
    BY <1>2, CommitSays
  <2> QED
    BY <2>1, <2>2, CommitOnce
<1>3. ASSUME NEW s \in DOMAIN streams, NEW received \in 0..Len(streams[s].data), Break(s, received)
      PROVE  CopiesOf(u, n, m)' = 1
  BY <1>3, BreakOnce
<1>4. CASE UNCHANGED vars
  <2>1. UNCHANGED <<unsent, queue, streams, applied, lost>>
    BY <1>4 DEF vars
  <2> QED
    BY <2>1, StillOnce
<1> QED
  BY <1>1, <1>2, <1>3, <1>4 DEF Next

\* All commits of a node.
Made(n) == {committed[n][i] : i \in DOMAIN committed[n]}

MadeOnce == \A n \in NodeId : \A m \in NodeId \ {n} : \A u \in Made(n) : CopiesOf(u, n, m) = 1

LEMMA NextOnce ==
  ASSUME ClockInv, ClockInv', Routed, MadeOnce, [Next]_vars
  PROVE  MadeOnce'
<1>1. ASSUME NEW n \in NodeId, NEW m \in NodeId \ {n}, NEW u \in Made(n) PROVE CopiesOf(u, n, m)' = 1
  <2>1. CopiesOf(u, n, m) = 1
    BY <1>1 DEF MadeOnce
  <2>2. PICK q : q = committed[n]
    OBVIOUS
  <2>3. q \in Seq(KnownUpdate)
    BY <2>2 DEF ClockInv, UpdatesKnown
  <2>4. u \in KnownUpdate
    BY <1>1, <2>2, <2>3 DEF Made
  <2>5. u.origin = <<n>>
    BY <1>1 DEF Made, Routed
  <2> QED
    BY <2>1, <2>4, <2>5, StepOnce
<1>2. CASE committed' = committed
  <2>1. \A n \in NodeId : Made(n)' = Made(n)
    BY <1>2 DEF Made
  <2> QED
    BY <1>1, <2>1 DEF MadeOnce
<1>3. ASSUME NEW k \in NodeId, NEW tx \in Transactions, CommitLocally(k, tx), committed' # committed
      PROVE  MadeOnce'
  <2>1. PICK v \in Update : CommitMakes(k, v) /\ v.origin = <<k>> /\ v \notin KnownUpdate
    BY <1>3, CommitIsNew
  <2>2. UNCHANGED <<queue, streams, lost>>
    BY <1>3, CommitSays
  <2>3. committed' = [committed EXCEPT ![k] = Append(committed[k], v)] /\ v \in unsent'
    BY <1>3, <2>1 DEF CommitMakes
  <2>4. ASSUME NEW n \in NodeId, NEW u \in Made(n)' PROVE u \in Made(n) \/ (n = k /\ u = v)
    <3>1. PICK q : q = committed[n]
      OBVIOUS
    <3>2. PICK r : r = committed'[n]
      OBVIOUS
    <3>3. q \in Seq(KnownUpdate)
      BY <3>1 DEF ClockInv, UpdatesKnown
    <3>4. PICK i \in DOMAIN r : u = r[i]
      BY <2>4, <3>2 DEF Made
    <3>5. r = q \/ (n = k /\ r = Append(q, v))
      BY <2>3, <3>1, <3>2 DEF ClockInv, UpdatesKnown
    <3>6. (i \in DOMAIN q /\ u = q[i]) \/ (n = k /\ u = v)
      BY <3>3, <3>4, <3>5
    <3> QED
      BY <3>1, <3>6 DEF Made
  <2>5. \A m \in NodeId \ {k} : CopiesOf(v, k, m)' = 1
    BY <2>1, <2>2, <2>3, NewOnce
  <2>6. ASSUME NEW n \in NodeId, NEW m \in NodeId \ {n}, NEW u \in Made(n)' PROVE CopiesOf(u, n, m)' = 1
    BY <1>1, <2>4, <2>5, <2>6
  <2> QED
    BY <2>6 DEF MadeOnce
<1>4. CASE committed' # committed
  <2>1. \E n \in NodeId, tx \in Transactions : CommitLocally(n, tx)
    BY <1>4 DEF Next, TaskStep, vars, managerVars, Broadcast, Connect, SkipForeign, Write, WriteToBroken,
                TakeNext, Disconnect, Receive, ApplyAndForward, Break
  <2> QED
    BY <1>3, <1>4, <2>1
<1> QED
  BY <1>2, <1>4

-----------------------------------------------------------------------------
(* Bounds of queues and links, and the states of nodes *)

\* A send appends to a queue that is full only what it takes from it.
LEMMA SendBounds ==
  ASSUME ClockInv, NEW n \in NodeId, NEW u \in KnownUpdate, Send(n, u),
         \A task \in Tasks : Len(queue[task]) <= Capacity
  PROVE  \A task \in Tasks : Len(queue'[task]) <= Capacity
<1>1. ASSUME NEW task \in Tasks PROVE Len(queue'[task]) <= Capacity
  <2>1. PICK q : q = queue[task]
    OBVIOUS
  <2>2. PICK N \in Nat \ {0} : N = Capacity
    BY NetworkAssumption
  <2>3. q \in Seq(KnownUpdate) /\ Len(q) <= N
    BY <2>1, <2>2 DEF ClockInv, UpdatesKnown
  <2>4. CASE task[1] # n
    BY <2>1, <2>2, <2>3, <2>4 DEF Send
  <2>5. CASE task[1] = n /\ Len(q) = N
    <3>1. queue'[task] = Append(Tail(q), u)
      BY <2>1, <2>2, <2>5 DEF Send, Full
    <3> QED
      BY <2>2, <2>3, <2>5, <3>1
  <2>6. CASE task[1] = n /\ Len(q) # N
    <3>1. queue'[task] = Append(q, u)
      BY <2>1, <2>2, <2>6 DEF Send, Full
    <3> QED
      BY <2>2, <2>3, <2>6, <3>1
  <2> QED
    BY <2>4, <2>5, <2>6
<1> QED
  BY <1>1

QueuesBounded == (\A task \in Tasks : Len(queue[task]) <= Capacity) /\ lagged \subseteq Tasks

LEMMA TakeBounds ==
  ASSUME ClockInv, QueuesBounded, NEW task \in Tasks, TakeNext(task)
  PROVE  QueuesBounded'
<1>1. /\ queue[task] # <<>> /\ queue' = [queue EXCEPT ![task] = Tail(queue[task])]
      /\ UNCHANGED lagged
  BY DEF TakeNext
<1>2. ASSUME NEW t \in Tasks PROVE Len(queue'[t]) <= Capacity
  <2>1. PICK q : q = queue[t]
    OBVIOUS
  <2>2. q \in Seq(KnownUpdate) /\ Len(q) <= Capacity /\ Capacity \in Nat
    BY <2>1, NetworkAssumption DEF ClockInv, UpdatesKnown, QueuesBounded
  <2>3. queue'[t] = q \/ (q # <<>> /\ queue'[t] = Tail(q))
    BY <1>1, <2>1 DEF ClockInv, UpdatesKnown
  <2> QED
    BY <2>2, <2>3
<1> QED
  BY <1>1, <1>2 DEF QueuesBounded

LEMMA NextBounds ==
  ASSUME ClockInv, QueuesBounded, [Next]_vars
  PROVE  QueuesBounded'
<1>1. ASSUME UNCHANGED queue, lagged' \subseteq lagged PROVE QueuesBounded'
  BY <1>1 DEF QueuesBounded
<1>2. ASSUME NEW n \in NodeId, NEW u \in KnownUpdate, Send(n, u) PROVE QueuesBounded'
  <2>1. \A task \in Tasks : Len(queue'[task]) <= Capacity
    BY <1>2, SendBounds DEF QueuesBounded
  <2>2. lagged' \subseteq Tasks
    BY <1>2 DEF QueuesBounded, Send
  <2> QED
    BY <2>1, <2>2 DEF QueuesBounded, Tasks
<1>3. ASSUME NEW n \in NodeId, NEW u \in unsent, Broadcast(n, u) PROVE QueuesBounded'
  BY <1>2, <1>3 DEF Broadcast, ClockInv, UpdatesKnown
<1>4. ASSUME NEW s \in DOMAIN streams, ApplyAndForward(s) PROVE QueuesBounded'
  BY <1>2, <1>4, ApplySays
<1>5. ASSUME NEW task \in Tasks, SkipForeign(task) \/ Write(task) \/ WriteToBroken(task) PROVE QueuesBounded'
  BY <1>5, TakeBounds DEF SkipForeign, Write, WriteToBroken
<1>6. ASSUME NEW task \in Tasks, Connect(task) \/ Disconnect(task) PROVE QueuesBounded'
  BY <1>1, <1>6 DEF Connect, Disconnect
<1>7. ASSUME NEW s \in DOMAIN streams, Receive(s) PROVE QueuesBounded'
  BY <1>1, <1>7 DEF Receive
<1>8. ASSUME NEW n \in NodeId, NEW tx \in Transactions, CommitLocally(n, tx) PROVE QueuesBounded'
  BY <1>1, <1>8, CommitSays
<1>9. ASSUME NEW s \in DOMAIN streams, NEW received \in 0..Len(streams[s].data), Break(s, received)
      PROVE  QueuesBounded'
  BY <1>1, <1>9 DEF Break
<1>10. CASE UNCHANGED vars
  BY <1>1, <1>10 DEF vars
<1> QED
  BY <1>3, <1>4, <1>5, <1>6, <1>7, <1>8, <1>9, <1>10 DEF Next, TaskStep

\* An update that does not merge leaves what it applied before.
LEMMA NextStates ==
  ASSUME FloatsRound, ClockInv, state \in [NodeId -> States], [Next]_vars
  PROVE  state' \in [NodeId -> States]
<1>1. ASSUME NEW n \in NodeId, NEW u, u.operations \in Seq(AlgebraicOperation)
      PROVE  [state EXCEPT ![n] = ApplyUpdateToState(state[n], u).state] \in [NodeId -> States]
  <2>1. PICK s \in States : s = state[n]
    OBVIOUS
  <2>2. ApplyUpdateToState(s, u).state \in States
    BY <1>1, <2>1, ApplyTypes
  <2> QED
    BY <2>1, <2>2
<1>2. ASSUME NEW n \in NodeId, NEW tx \in Transactions, CommitLocally(n, tx)
      PROVE  state' \in [NodeId -> States]
  <2>1. PICK u : u = CommitLocal(tx, n, clock[n]).update
    OBVIOUS
  <2>2. u.operations = tx
    BY <1>2, <2>1 DEF CommitLocally, CommitLocal, CanCommitLocally, Error, Ok
  <2>3. state' = [state EXCEPT ![n] = ApplyUpdateToState(state[n], u).state]
    BY <1>2, <2>1 DEF CommitLocally
  <2> QED
    BY <1>1, <2>2, <2>3, NetworkAssumption
<1>3. ASSUME NEW s \in DOMAIN streams, ApplyAndForward(s) PROVE state' \in [NodeId -> States]
  <2>1. PICK n : n = streams[s].to
    OBVIOUS
  <2>2. PICK u : u = streams[s].handling
    OBVIOUS
  <2>3. n \in NodeId /\ u \in KnownUpdate
    BY <1>3, <2>1, <2>2, ApplySays
  <2>4. u.operations \in Seq(AlgebraicOperation)
    BY <2>3, NetworkAssumption DEF KnownUpdate, Update
  <2>5. state' = [state EXCEPT ![n] = ApplyUpdateToState(state[n], u).state]
    BY <1>3, <2>1, <2>2 DEF ApplyAndForward
  <2> QED
    BY <1>1, <2>3, <2>4, <2>5
<1>4. CASE UNCHANGED state
  BY <1>4
<1>5. \/ UNCHANGED state
      \/ \E n \in NodeId, tx \in Transactions : CommitLocally(n, tx)
      \/ \E s \in DOMAIN streams : ApplyAndForward(s)
  BY DEF Next, TaskStep, vars, managerVars, Broadcast, Connect, SkipForeign, Write, WriteToBroken,
         TakeNext, Disconnect, Receive, Break
<1> QED
  BY <1>2, <1>3, <1>4, <1>5

\* What makes the accounts of updates inductive: where they are, and that a
\* connection carries none of the node it leads to.
AccountInv == ClockInv /\ Routed /\ MadeOnce /\ QueuesBounded /\ state \in [NodeId -> States]

LEMMA AccountsBegin == Init => AccountInv
<1> SUFFICES ASSUME Init PROVE AccountInv
  OBVIOUS
<1>1. Routed
  BY DEF Init, Routed
<1>2. MadeOnce
  BY DEF Init, MadeOnce, Made
<1>3. QueuesBounded
  BY NetworkAssumption DEF Init, QueuesBounded
<1>4. state \in [NodeId -> States]
  BY StatesAreStates DEF Init
<1> QED
  BY <1>1, <1>2, <1>3, <1>4, ClocksBegin DEF AccountInv

LEMMA AccountsSay == AccountInv => EveryUpdateAccounted
<1> SUFFICES ASSUME AccountInv PROVE EveryUpdateAccounted
  OBVIOUS
<1>1. \A n \in NodeId : IsClock(clock[n]) /\ IsState(state[n])
  BY ClockIsClock, StatesAreStates DEF AccountInv, ClockInv, UpdatesKnown
<1>2. ASSUME NEW task \in Tasks PROVE Len(queue[task]) <= Capacity /\ link[task] \in 0..Len(streams)
  <2>1. PICK N \in Nat : N = Len(streams) /\ DOMAIN streams = 1..N
    BY StreamTypes DEF AccountInv
  <2>2. link[task] \in Nat /\ (link[task] # 0 => link[task] \in 1..N)
    BY <2>1 DEF AccountInv, ClockInv, UpdatesKnown
  <2> QED
    BY <2>1, <2>2 DEF AccountInv, QueuesBounded
<1>3. ASSUME NEW s \in DOMAIN streams PROVE streams[s].to \in NodeId /\ streams[s].open \in BOOLEAN
  <2>1. streams[s] \in Stream
    BY StreamTypes DEF AccountInv
  <2> QED
    BY <2>1 DEF Stream
<1>4. TypeOK
  BY <1>1, <1>2, <1>3 DEF TypeOK, AccountInv, QueuesBounded
<1>5. ExactlyOnceOrLost
  BY DEF AccountInv, MadeOnce, Made, ExactlyOnceOrLost
<1> QED
  BY <1>4, <1>5 DEF EveryUpdateAccounted

\* An update is applied at every peer once, or lost or refused, or on its way,
\* and nowhere twice, for any number of nodes and connections, any capacity of
\* the broadcast channel, and whatever breaks (commit_and_broadcast, the tasks
\* of connect_to_peers, handle_connection).
THEOREM UpdatesAreAccounted ==
  ASSUME FloatsRound
  PROVE  Spec => []EveryUpdateAccounted
<1>1. AccountInv /\ [Next]_vars => AccountInv'
  <2> SUFFICES ASSUME AccountInv, [Next]_vars PROVE AccountInv'
    OBVIOUS
  <2>1. ClockInv /\ ClockInv'
    BY NextClocks DEF AccountInv
  <2>2. Routed' /\ MadeOnce'
    BY <2>1, NextRouted, NextOnce DEF AccountInv
  <2>3. QueuesBounded'
    BY NextBounds DEF AccountInv
  <2>4. state' \in [NodeId -> States]
    BY NextStates DEF AccountInv
  <2> QED
    BY <2>1, <2>2, <2>3, <2>4 DEF AccountInv
<1> QED
  BY <1>1, AccountsBegin, AccountsSay, PTL DEF Spec
=============================================================================
