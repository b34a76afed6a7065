------------------------ MODULE SimulatedCluster_proofs ------------------------
(***************************************************************************)
(* Proofs about SimulatedCluster: whatever a network that drops, delays,   *)
(* duplicates and partitions does with the gossip, identifiers and clocks  *)
(* of the updates tell exactly which commit had seen which.                *)
(***************************************************************************)
EXTENDS Algorithms_proofs, SimulatedCluster
LOCAL INSTANCE SequencesExt

-----------------------------------------------------------------------------
(* What updates add up to                                                  *)

\* The operations of updates on a key, and a state they come to.
OpsOf(us, k) == [o \in OperationsOn(us, k) |-> o[1].operations[o[2]]]
MergesTo(s, us) == \A k \in Keys : KeyHolds(s, k, OpsOf(us, k))

\* All transactions use a key with one type of operation, and whatever
\* MaxCommits of them add to a key is no overflow.
UsesFit(use, L, B) ==
  /\ \A tx \in Transactions :
       /\ Len(tx) <= L
       /\ \A i \in DOMAIN tx : Plain(tx[i]) /\ tx[i].op = use[tx[i].key] /\ Modest(tx[i], B)
  /\ Fitting(MaxCommits * L, B)
TransactionsFit == \E use \in [Keys -> OpType], L \in Nat, B \in Nat : UsesFit(use, L, B)

\* The operations of us, and the first j of u.
PlacesOf(us, u, j, k) ==
  OperationsOn(us, k) \cup ({u} \X {i \in 1..j : u.operations[i].key = k})
Part(us, u, j, k) == [o \in PlacesOf(us, u, j, k) |-> o[1].operations[o[2]]]

LEMMA PlacesAre ==
  ASSUME NEW us, NEW k, NEW y \in OperationsOn(us, k)
  PROVE  /\ y[1] \in us /\ y[2] \in DOMAIN y[1].operations /\ y = <<y[1], y[2]>>
         /\ y[1].operations[y[2]].key = k
<1>1. PICK w \in us : y \in {w} \X {i \in DOMAIN w.operations : w.operations[i].key = k}
  BY DEF OperationsOn
<1> QED
  BY <1>1

\* Taking in one update with all of its operations.
LEMMA PartsBegin ==
  ASSUME NEW us, NEW u, NEW k
  PROVE  Part(us, u, 0, k) = OpsOf(us, k)
<1>1. {u} \X {i \in 1..0 : u.operations[i].key = k} = {}
  OBVIOUS
<1>2. PlacesOf(us, u, 0, k) = OperationsOn(us, k)
  BY <1>1 DEF PlacesOf
<1> QED
  BY <1>2 DEF Part, OpsOf

LEMMA PartsEnd ==
  ASSUME NEW us, NEW u, NEW N \in Nat, DOMAIN u.operations = 1..N, NEW k
  PROVE  Part(us, u, N, k) = OpsOf(us \cup {u}, k)
<1>1. PlacesOf(us, u, N, k) = OperationsOn(us \cup {u}, k)
  BY DEF PlacesOf, OperationsOn
<1> QED
  BY <1>1 DEF Part, OpsOf

LEMMA PartsGrow ==
  ASSUME NEW us, NEW u, u \notin us, NEW N \in Nat, NEW j \in 1..N, NEW k
  PROVE  /\ <<u, j>> \notin DOMAIN Part(us, u, j - 1, k)
         /\ Part(us, u, j, k) = IF u.operations[j].key = k
                                THEN With(Part(us, u, j - 1, k), <<u, j>>, u.operations[j])
                                ELSE Part(us, u, j - 1, k)
<1>1. PICK P, Q : P = PlacesOf(us, u, j - 1, k) /\ Q = PlacesOf(us, u, j, k)
  OBVIOUS
<1>2. <<u, j>> \notin OperationsOn(us, k)
  BY PlacesAre
<1>3. <<u, j>> \notin P
  BY <1>1, <1>2 DEF PlacesOf
<1>4. {i \in 1..j : u.operations[i].key = k} =
        {i \in 1..(j - 1) : u.operations[i].key = k}
          \cup IF u.operations[j].key = k THEN {j} ELSE {}
  OBVIOUS
<1>5. Q = P \cup IF u.operations[j].key = k THEN {<<u, j>>} ELSE {}
  BY <1>1, <1>4 DEF PlacesOf
<1>6. CASE u.operations[j].key = k
  <2>1. DOMAIN Part(us, u, j - 1, k) = P /\ \A o \in P : Part(us, u, j - 1, k)[o] = o[1].operations[o[2]]
    BY <1>1 DEF Part
  <2>2. Part(us, u, j, k) = [o \in P \cup {<<u, j>>} |-> o[1].operations[o[2]]]
    BY <1>1, <1>5, <1>6 DEF Part
  <2>3. With(Part(us, u, j - 1, k), <<u, j>>, u.operations[j]) =
          [o \in P \cup {<<u, j>>} |-> IF o = <<u, j>> THEN u.operations[j] ELSE o[1].operations[o[2]]]
    BY <2>1 DEF With
  <2> QED
    BY <1>3, <1>6, <2>1, <2>2, <2>3
<1>7. CASE u.operations[j].key # k
  BY <1>1, <1>3, <1>5, <1>7 DEF Part
<1> QED
  BY <1>6, <1>7

\* The updates there can be have few operations.
LEMMA PartsFew ==
  ASSUME NEW us, IsFiniteSet(us), NEW u, u \notin us, NEW L \in Nat,
         \A w \in us \cup {u} : DOMAIN w.operations \subseteq 1..L, Cardinality(us) + 1 <= MaxCommits,
         NEW j \in DOMAIN u.operations, NEW k
  PROVE  /\ IsFiniteSet(PlacesOf(us, u, j - 1, k))
         /\ Cardinality(PlacesOf(us, u, j - 1, k)) + 1 <= MaxCommits * L
<1>1. PICK P, x : P = PlacesOf(us, u, j - 1, k) /\ x = <<u, j>>
  OBVIOUS
<1>2. PICK vs : vs = us \cup {u}
  OBVIOUS
<1>3. PICK T : T = 1..L
  OBVIOUS
<1>4. IsFiniteSet(vs) /\ Cardinality(vs) = Cardinality(us) + 1 /\ Cardinality(us) \in Nat
  BY <1>2, FS_AddElement, FS_CardinalityType
<1>5. IsFiniteSet(T) /\ Cardinality(T) = L
  BY <1>3, FS_Interval
<1>6. IsFiniteSet(vs \X T) /\ Cardinality(vs \X T) = Cardinality(vs) * L
  BY <1>4, <1>5, FS_Product
<1>7. x \notin P /\ P \cup {x} \subseteq vs \X T
  <2>1. j \in T /\ 1..(j - 1) \subseteq T /\ j \in Nat
    BY <1>2, <1>3
  <2>2. \A y \in OperationsOn(us, k) : y \in vs \X T /\ y[1] \in us
    <3>1. ASSUME NEW y \in OperationsOn(us, k) PROVE y \in vs \X T /\ y[1] \in us
      <4>1. y[1] \in us /\ y[2] \in DOMAIN y[1].operations /\ y = <<y[1], y[2]>>
        BY PlacesAre
      <4> QED
        BY <1>2, <1>3, <4>1
    <3> QED
      BY <3>1
  <2>3. \A y \in {u} \X {i \in 1..(j - 1) : u.operations[i].key = k} : y \in vs \X T /\ y # x
    BY <1>1, <1>2, <2>1
  <2> QED
    BY <1>1, <1>2, <2>1, <2>2, <2>3 DEF PlacesOf
<1>8. IsFiniteSet(P) /\ Cardinality(P \cup {x}) = Cardinality(P) + 1
      /\ Cardinality(P \cup {x}) <= Cardinality(vs) * L /\ Cardinality(P) \in Nat
  <2>1. IsFiniteSet(P)
    BY <1>6, <1>7, FS_Subset
  <2>2. Cardinality(P \cup {x}) <= Cardinality(vs) * L
    BY <1>6, <1>7, FS_Subset
  <2> QED
    BY <1>7, <2>1, <2>2, FS_AddElement, FS_CardinalityType
<1>9. Cardinality(vs) * L <= MaxCommits * L
  <2>1. PICK c \in Nat : c = Cardinality(vs)
    BY <1>4
  <2>2. c <= MaxCommits /\ MaxCommits \in Nat
    BY <1>4, <2>1, BoundAssumption
  <2> QED
    BY <2>1, <2>2
<1>10. PICK a \in Int, b \in Int : a = Cardinality(vs) * L /\ b = MaxCommits * L
  BY <1>4, BoundAssumption
<1> QED
  BY <1>1, <1>8, <1>9, <1>10

\* apply_update: the operations of an update that is new merge, every one.
LEMMA UpdateMerges ==
  ASSUME FloatsRound, TransactionsFit, NEW us, IsFiniteSet(us), Cardinality(us) + 1 <= MaxCommits,
         NEW u, u \notin us, \A w \in us \cup {u} : w.operations \in Transactions,
         NEW s \in States, MergesTo(s, us)
  PROVE  MergesTo(StateWith(s, u), us \cup {u})
<1>1. PICK use \in [Keys -> OpType], L \in Nat, B \in Nat : UsesFit(use, L, B)
  BY DEF TransactionsFit
<1>2. PICK ops : ops = u.operations
  OBVIOUS
<1>3. ops \in Seq(AlgebraicOperation) /\ ops \in Transactions
  BY <1>2, TransactionAssumption
<1>4. PICK N \in Nat : N = Len(ops) /\ DOMAIN ops = 1..N
  BY <1>3
<1>5. PICK after : after = StatesAfter(s, ops)
  OBVIOUS
<1>6. /\ after[0] = s
      /\ \A i \in 0..N : after[i] \in States
      /\ \A i \in 1..N : after[i] = ApplyOperation(after[i - 1], ops[i]).state
  <2> HIDE DEF AlgebraicOperation, States
  <2> QED
    BY <1>3, <1>4, <1>5, StatesFollow
<1>7. \A w \in us \cup {u} : /\ DOMAIN w.operations \subseteq 1..L
                             /\ \A i \in DOMAIN w.operations :
                                  /\ Plain(w.operations[i]) /\ Modest(w.operations[i], B)
                                  /\ w.operations[i].op = use[w.operations[i].key]
  <2>1. ASSUME NEW tx \in Transactions PROVE DOMAIN tx \subseteq 1..L
    <3>1. tx \in Seq(AlgebraicOperation) /\ Len(tx) <= L
      BY <1>1, TransactionAssumption DEF UsesFit
    <3>2. PICK n \in Nat : n = Len(tx) /\ DOMAIN tx = 1..n
      BY <3>1
    <3> QED
      BY <3>1, <3>2
  <2> QED
    BY <1>1, <2>1 DEF UsesFit
<1> DEFINE G == {j \in 0..N : \A k \in Keys : KeyHolds(after[j], k, Part(us, u, j, k))}
<1>8. 0 \in G
  <2>1. \A k \in Keys : KeyHolds(s, k, Part(us, u, 0, k))
    BY PartsBegin DEF MergesTo
  <2> QED
    BY <1>6, <2>1
<1>9. ASSUME NEW j \in 1..N, j - 1 \in G PROVE j \in G
  <2>1. PICK o \in AlgebraicOperation : o = ops[j] /\ j \in DOMAIN u.operations
    BY <1>2, <1>3, <1>4
  <2>2. PICK z \in States : z = after[j - 1]
    BY <1>6
  <2>3. after[j] = ApplyOperation(z, o).state
    BY <1>6, <2>1, <2>2
  <2>4. ASSUME NEW k \in Keys PROVE KeyHolds(after[j], k, Part(us, u, j, k))
    <3>1. PICK h, x : h = Part(us, u, j - 1, k) /\ x = <<u, j>>
      OBVIOUS
    <3>2. KeyHolds(z, k, h)
      BY <1>9, <2>2, <3>1
    <3>3. x \notin DOMAIN h /\ Part(us, u, j, k) = IF o.key = k THEN With(h, x, o) ELSE h
      BY <1>2, <2>1, <3>1, PartsGrow
    <3>4. CASE o.key # k
      BY <2>3, <3>2, <3>3, <3>4, ApplyLeaves
    <3>5. CASE o.key = k
      <4>1. DOMAIN h = PlacesOf(us, u, j - 1, k) /\ \A y \in DOMAIN h : h[y] = y[1].operations[y[2]]
        BY <3>1 DEF Part
      <4>2. PICK C \in Nat : C = MaxCommits * L
        BY BoundAssumption
      <4>3. IsFiniteSet(DOMAIN h) /\ Cardinality(DOMAIN h) + 1 <= C
        <5>1. \A w \in us \cup {u} : DOMAIN w.operations \subseteq 1..L
          BY <1>7
        <5>2. /\ IsFiniteSet(PlacesOf(us, u, j - 1, k))
              /\ Cardinality(PlacesOf(us, u, j - 1, k)) + 1 <= MaxCommits * L
          BY <2>1, <5>1, PartsFew
        <5> QED
          BY <4>1, <4>2, <5>2
      <4>4. \A y \in DOMAIN h : h[y].op = o.op /\ Modest(h[y], B)
        <5> SUFFICES ASSUME NEW y \in DOMAIN h PROVE h[y].op = o.op /\ Modest(h[y], B)
          OBVIOUS
        <5>1. /\ y[1] \in us \cup {u} /\ y[2] \in DOMAIN y[1].operations
              /\ y[1].operations[y[2]].key = k
          <6>1. CASE y \in OperationsOn(us, k)
            BY <6>1, PlacesAre
          <6>2. CASE y \in {u} \X {i \in 1..(j - 1) : u.operations[i].key = k}
            BY <1>2, <1>4, <6>2
          <6> QED
            BY <4>1, <6>1, <6>2 DEF PlacesOf
        <5>2. h[y].op = use[k] /\ Modest(h[y], B)
          BY <1>7, <4>1, <5>1
        <5>3. o.op = use[k]
          BY <1>2, <1>7, <2>1, <3>5
        <5> QED
          BY <5>2, <5>3
      <4>5. Plain(o) /\ Modest(o, B) /\ Fitting(C, B)
        BY <1>1, <1>2, <1>7, <2>1, <4>2 DEF UsesFit
      <4>6. KeyHolds(z, o.key, h)
        BY <3>2, <3>5
      <4>7. ApplyOperation(z, o).ok
        BY <3>3, <4>3, <4>4, <4>5, <4>6, ModestMerges
      <4>8. KeyHolds(ApplyOperation(z, o).state, o.key, With(h, x, o))
        BY <3>3, <4>3, <4>5, <4>6, <4>7, ApplyExtends
      <4> QED
        BY <2>3, <3>3, <3>5, <4>8
    <3> QED
      BY <3>4, <3>5
  <2> QED
    BY <2>4
<1>10. N \in G
  <2> HIDE DEF G
  <2>1. 0..N \subseteq G
    BY <1>8, <1>9, NaturalSteps
  <2> QED
    BY <2>1
<1>11. StateWith(s, u) = after[N]
  BY <1>2, <1>4, <1>5 DEF StateWith
<1>12. \A k \in Keys : Part(us, u, N, k) = OpsOf(us \cup {u}, k)
  BY <1>2, <1>4, PartsEnd
<1> QED
  BY <1>10, <1>11, <1>12 DEF MergesTo

-----------------------------------------------------------------------------
(* What the rounds leave true of the nodes.                                 *)

\* Clocks that commits and merges make have no entry of 0.
Clocks == UNION {[D -> Nat \ {0}] : D \in SUBSET NodeId}
Update == [operations : Seq(AlgebraicOperation), clock : Clocks, origin : {<<n>> : n \in NodeId}]
Node == [clock : Clocks, state : States, applied : SUBSET (Seq(NodeId) \X Clocks),
         all : Seq(Update), outbox : Seq(Update)]

\* What is in a list, and what the nodes have applied.
Image(q) == {q[i] : i \in DOMAIN q}
Made(ns) == UNION {Image(ns[n].all) : n \in NodeId}

OwnIds(n, x) == {id \in x.applied : id[1] = <<n>>}

\* When n made its update at place j it had seen what it had applied by then,
\* and nothing else.
Past(n, all, j) ==
  /\ \A i \in 1..(j - 1) : /\ Covers(all[j].clock, all[i].clock)
                           /\ Time(all[i].clock, n) < Time(all[j].clock, n)
  /\ \A m \in NodeId :
       LET t == Time(all[j].clock, m) - IF m = n THEN 1 ELSE 0
       IN t > 0 => \E i \in 1..(j - 1) : Time(all[i].clock, m) >= t

\* What holds of node n with the record x.
NodeOwn(n, x) ==
  /\ x \in Node
  /\ x.applied = {UpdateId(u) : u \in Image(x.all)}
  /\ Image(x.outbox) \subseteq Image(x.all)
  /\ \A u \in Image(x.all) : Covers(x.clock, u.clock)
  /\ \A m \in NodeId : Time(x.clock, m) > 0 =>
       \E u \in Image(x.all) : Time(u.clock, m) >= Time(x.clock, m)
  /\ \A j \in DOMAIN x.all : x.all[j].origin = <<n>> => Past(n, x.all, j)
  /\ IsFiniteSet(OwnIds(n, x)) /\ Cardinality(OwnIds(n, x)) = Time(x.clock, n)

\* Whoever counts an update of a node has seen what that node had seen.
Knows(c, u) ==
  \A m \in NodeId : u.origin = <<m>> /\ Time(u.clock, m) <= Time(c, m) => Covers(c, u.clock)

Causal(M) ==
  /\ \A u, w \in M : Knows(w.clock, u) /\ (u.clock = w.clock => u = w)
  /\ \A u \in M : \A m \in NodeId : u.origin = <<m>> => Time(u.clock, m) > 0

HeardOf(ns, M) ==
  /\ \A n \in NodeId, u \in M : Knows(ns[n].clock, u)
  /\ \A m, n \in NodeId : Time(ns[n].clock, m) <= Time(ns[m].clock, m)
  /\ \A u \in M, m \in NodeId : u.origin = <<m>> => u \in Image(ns[m].all)

\* No more than was committed, and the node adds up what it applied.
GivenMessage(M) ==
  /\ IsFiniteSet(M) /\ Cardinality(M) <= MaxCommits
  /\ \A u \in M : u.operations \in Transactions
AddsUpNode(x) == TransactionsFit => MergesTo(x.state, Image(x.all))

\* The nodes, when M is what they have applied between them.
Sound(ns, M) ==
  /\ ns = [n \in NodeId |-> ns[n]] /\ \A n \in NodeId : NodeOwn(n, ns[n])
  /\ M = Made(ns) /\ Causal(M) /\ HeardOf(ns, M)
  /\ GivenMessage(M) /\ \A n \in NodeId : AddsUpNode(ns[n])

\* Messages that carry an update of M.
Messages(M) ==
  {m \in [from : NodeId, to : NodeId, update : M, delay : 0..MaxDelay] : m.to # m.from}

GossipInv ==
  /\ Sound(nodes, Made(nodes)) /\ Cardinality(Made(nodes)) <= commits
  /\ messages \in Seq(Messages(Made(nodes)))
  /\ partitions \subseteq SUBSET NodeId
  /\ adversarial \in BOOLEAN /\ converged \in BOOLEAN /\ lost \in BOOLEAN
  /\ round \in 0..RequeueInterval
  /\ hadMessages \in {"none", "yes", "no"}
  /\ commits \in 0..MaxCommits /\ events \in 0..MaxEvents

-----------------------------------------------------------------------------
(* Clocks and lists                                                         *)

LEMMA ClocksAreClocks == \A c \in Clocks : IsClock(c)
BY DEF Clocks, IsClock

\* Clocks without an entry of 0 that cover each other are one.
LEMMA EqualClocks ==
  ASSUME NEW c \in Clocks, NEW d \in Clocks, Covers(c, d), Covers(d, c)
  PROVE  c = d
<1>1. /\ IsClock(c) /\ IsClock(d)
      /\ \A n \in DOMAIN c : c[n] \in Nat \ {0}
      /\ \A n \in DOMAIN d : d[n] \in Nat \ {0}
  BY ClocksAreClocks DEF Clocks
<1>2. \A n \in NodeId : Time(c, n) = Time(d, n)
  BY <1>1, CoversBoth
<1>3. \A n \in NodeId : (n \in DOMAIN c <=> n \in DOMAIN d) /\ (n \in DOMAIN c => c[n] = d[n])
  BY <1>1, <1>2 DEF Time
<1>4. DOMAIN c = DOMAIN d /\ \A n \in DOMAIN c : c[n] = d[n]
  BY <1>1, <1>3 DEF IsClock
<1> QED
  BY <1>1, <1>4 DEF IsClock

LEMMA ClocksGoOn ==
  /\ EmptyClock \in Clocks
  /\ \A c \in Clocks, n \in NodeId : Tick(c, n) \in Clocks
  /\ \A c, d \in Clocks : MergeClocks(c, d) \in Clocks
<1>1. EmptyClock \in Clocks
  <2>1. EmptyClock \in [{} -> Nat \ {0}]
    BY DEF EmptyClock
  <2> QED
    BY <2>1 DEF Clocks
<1>2. ASSUME NEW c \in Clocks, NEW n \in NodeId PROVE Tick(c, n) \in Clocks
  <2>1. PICK D \in SUBSET NodeId : c \in [D -> Nat \ {0}]
    BY DEF Clocks
  <2>2. Tick(c, n) \in [D \cup {n} -> Nat \ {0}]
    BY <2>1 DEF Tick, SetTime, Time
  <2> QED
    BY <2>1, <2>2 DEF Clocks
<1>3. ASSUME NEW c \in Clocks, NEW d \in Clocks PROVE MergeClocks(c, d) \in Clocks
  <2>1. PICK D \in SUBSET NodeId : c \in [D -> Nat \ {0}]
    BY DEF Clocks
  <2>2. PICK E \in SUBSET NodeId : d \in [E -> Nat \ {0}]
    BY DEF Clocks
  <2>3. MergeClocks(c, d) \in [D \cup E -> Nat \ {0}]
    BY <2>1, <2>2 DEF MergeClocks, Larger, Time
  <2> QED
    BY <2>1, <2>2, <2>3 DEF Clocks
<1> QED
  BY <1>1, <1>2, <1>3

LEMMA AppendImage ==
  ASSUME NEW S, NEW q \in Seq(S), NEW e
  PROVE  /\ Image(Append(q, e)) = Image(q) \cup {e}
         /\ \A i \in DOMAIN q : Append(q, e)[i] = q[i]
         /\ DOMAIN q = 1..Len(q) /\ DOMAIN Append(q, e) = 1..(Len(q) + 1)
         /\ Append(q, e)[Len(q) + 1] = e /\ Len(q) \in Nat
<1>1. /\ DOMAIN q = 1..Len(q) /\ DOMAIN Append(q, e) = 1..(Len(q) + 1)
      /\ \A i \in DOMAIN q : Append(q, e)[i] = q[i]
      /\ Append(q, e)[Len(q) + 1] = e /\ Len(q) \in Nat
  OBVIOUS
<1>2. DOMAIN Append(q, e) = DOMAIN q \cup {Len(q) + 1}
  BY <1>1
<1> HIDE DEF Image
<1>3. Image(Append(q, e)) = Image(q) \cup {e}
  BY <1>1, <1>2 DEF Image
<1> QED
  BY <1>1, <1>3

-----------------------------------------------------------------------------
(* A node that takes an update, of its own or of another.                  *)

\* Node n goes from x to y with an update that is new to it.
Tracked(n, x, u, y) ==
  /\ n \in NodeId /\ NodeOwn(n, x) /\ u \in Update /\ UpdateId(u) \notin x.applied
  /\ y.clock \in Clocks /\ y.state \in States
  /\ \A m \in NodeId : Time(y.clock, m) = Larger(Time(x.clock, m), Time(u.clock, m))
  /\ u.origin = <<n>> => \A m \in NodeId :
       Time(u.clock, m) = Time(x.clock, m) + IF m = n THEN 1 ELSE 0
  /\ u.origin # <<n>> => Time(u.clock, n) <= Time(x.clock, n)
  /\ y = [clock |-> y.clock, state |-> y.state, applied |-> x.applied \cup {UpdateId(u)},
          all |-> Append(x.all, u), outbox |-> Append(x.outbox, u)]

\* All it knows is covered, and each entry of its clock is of an update it has.
LEMMA TrackedClock ==
  ASSUME NEW n, NEW x, NEW u, NEW y, Tracked(n, x, u, y)
  PROVE  /\ \A w \in Image(y.all) : Covers(y.clock, w.clock)
         /\ \A m \in NodeId : Time(y.clock, m) > 0 =>
              \E w \in Image(y.all) : Time(w.clock, m) >= Time(y.clock, m)
<1>1. /\ x \in Node /\ u \in Update /\ y.clock \in Clocks
      /\ Image(y.all) = Image(x.all) \cup {u}
  <2>1. x \in Node /\ u \in Update /\ y.clock \in Clocks /\ y.all = Append(x.all, u)
    BY DEF Tracked, NodeOwn
  <2>2. x.all \in Seq(Update)
    BY <2>1 DEF Node
  <2> QED
    BY <2>1, <2>2, AppendImage
<1>2. \A w \in Image(x.all) : w \in Update
  BY <1>1 DEF Node, Image
<1>3. /\ IsClock(x.clock) /\ IsClock(y.clock)
      /\ \A w \in Image(x.all) \cup {u} : IsClock(w.clock)
  BY <1>1, <1>2, ClocksAreClocks DEF Node, Update
<1>4. /\ \A m \in NodeId : Time(x.clock, m) \in Nat /\ Time(y.clock, m) \in Nat
      /\ \A w \in Image(x.all) \cup {u} : \A m \in NodeId : Time(w.clock, m) \in Nat
  BY <1>3, TimeType
<1>5. \A m \in NodeId : Time(y.clock, m) = Larger(Time(x.clock, m), Time(u.clock, m))
  BY DEF Tracked
<1>6. /\ \A w \in Image(x.all) : \A m \in NodeId : Time(w.clock, m) <= Time(x.clock, m)
      /\ \A m \in NodeId : Time(x.clock, m) > 0 =>
           \E w \in Image(x.all) : Time(w.clock, m) >= Time(x.clock, m)
  BY DEF Tracked, NodeOwn, Covers
<1>7. ASSUME NEW w \in Image(y.all) PROVE Covers(y.clock, w.clock)
  BY <1>1, <1>4, <1>5, <1>6 DEF Covers, Larger
<1>8. ASSUME NEW m \in NodeId, Time(y.clock, m) > 0
      PROVE  \E w \in Image(y.all) : Time(w.clock, m) >= Time(y.clock, m)
  <2>1. CASE Time(x.clock, m) >= Time(u.clock, m)
    BY <1>1, <1>4, <1>5, <1>6, <1>8, <2>1 DEF Larger
  <2>2. CASE ~(Time(x.clock, m) >= Time(u.clock, m))
    <3>1. Time(y.clock, m) = Time(u.clock, m)
      BY <1>4, <1>5, <2>2 DEF Larger
    <3> QED
      BY <1>1, <1>4, <3>1
  <2> QED
    BY <2>1, <2>2
<1> QED
  BY <1>7, <1>8

\* What it made keeps its past, and what it makes now has all it had applied.
LEMMA TrackedPast ==
  ASSUME NEW n, NEW x, NEW u, NEW y, Tracked(n, x, u, y),
         NEW j \in DOMAIN y.all, y.all[j].origin = <<n>>
  PROVE  Past(n, y.all, j)
<1>1. /\ x.all \in Seq(Update) /\ u \in Update /\ y.all = Append(x.all, u) /\ n \in NodeId
      /\ x \in Node
  BY DEF Tracked, NodeOwn, Node
<1>2. PICK N \in Nat : N = Len(x.all)
  BY <1>1
<1>3. /\ \A i \in 1..N : y.all[i] = x.all[i] /\ x.all[i] \in Image(x.all) /\ x.all[i] \in Update
      /\ DOMAIN x.all = 1..N /\ DOMAIN y.all = 1..(N + 1) /\ y.all[N + 1] = u
      /\ \A w \in Image(x.all) : \E i \in 1..N : w = x.all[i]
  <2>1. DOMAIN x.all = 1..N /\ DOMAIN y.all = 1..(N + 1) /\ y.all[N + 1] = u
        /\ \A i \in 1..N : y.all[i] = x.all[i]
    BY <1>1, <1>2, AppendImage
  <2> QED
    BY <1>1, <2>1 DEF Image
<1>4. CASE j \in 1..N
  <2>1. Past(n, x.all, j)
    BY <1>3, <1>4 DEF Tracked, NodeOwn
  <2>2. \A i \in 1..j : y.all[i] = x.all[i]
    BY <1>3, <1>4
  <2>3. j \in 1..j /\ \A i \in 1..(j - 1) : i \in 1..j
    BY <1>2, <1>4
  <2> QED
    BY <2>1, <2>2, <2>3 DEF Past
<1>5. CASE j = N + 1
  <2>1. /\ y.all[j] = u /\ j - 1 = N /\ u.origin = <<n>>
        /\ \A m \in NodeId : Time(u.clock, m) = Time(x.clock, m) + IF m = n THEN 1 ELSE 0
    BY <1>2, <1>3, <1>5 DEF Tracked
  <2>2. /\ \A m \in NodeId : Time(x.clock, m) \in Nat /\ Time(u.clock, m) \in Nat
        /\ \A w \in Image(x.all) : \A m \in NodeId : Time(w.clock, m) \in Nat
    <3>1. \A w \in Image(x.all) : w \in Update
      BY <1>3
    <3>2. IsClock(x.clock) /\ IsClock(u.clock) /\ \A w \in Image(x.all) : IsClock(w.clock)
      BY <1>1, <3>1, ClocksAreClocks DEF Node, Update
    <3> QED
      BY <3>2, TimeType
  <2>3. /\ \A w \in Image(x.all) : \A m \in NodeId : Time(w.clock, m) <= Time(x.clock, m)
        /\ \A m \in NodeId : Time(x.clock, m) > 0 =>
             \E w \in Image(x.all) : Time(w.clock, m) >= Time(x.clock, m)
    BY DEF Tracked, NodeOwn, Covers
  <2>4. ASSUME NEW i \in 1..N
        PROVE  Covers(u.clock, y.all[i].clock) /\ Time(y.all[i].clock, n) < Time(u.clock, n)
    <3>1. y.all[i] \in Image(x.all)
      BY <1>3
    <3>2. \A m \in NodeId : Time(y.all[i].clock, m) <= Time(u.clock, m)
      BY <2>1, <2>2, <2>3, <3>1
    <3>3. Time(y.all[i].clock, n) < Time(u.clock, n)
      BY <1>1, <2>1, <2>2, <2>3, <3>1
    <3> QED
      BY <3>2, <3>3 DEF Covers
  <2>5. ASSUME NEW m \in NodeId, Time(u.clock, m) - (IF m = n THEN 1 ELSE 0) > 0
        PROVE  \E i \in 1..N : Time(y.all[i].clock, m) >= Time(u.clock, m) - (IF m = n THEN 1 ELSE 0)
    <3>1. Time(x.clock, m) = Time(u.clock, m) - (IF m = n THEN 1 ELSE 0)
      BY <2>1, <2>2
    <3>2. PICK w \in Image(x.all) : Time(w.clock, m) >= Time(x.clock, m)
      BY <2>3, <2>5, <3>1
    <3>3. PICK i \in 1..N : w = y.all[i]
      BY <1>3
    <3> QED
      BY <3>1, <3>2, <3>3
  <2> QED
    BY <2>1, <2>4, <2>5 DEF Past
<1> QED
  BY <1>2, <1>3, <1>4, <1>5

LEMMA TrackedOwn ==
  ASSUME NEW n, NEW x, NEW u, NEW y, Tracked(n, x, u, y)
  PROVE  NodeOwn(n, y)
<1>1. /\ x \in Node /\ u \in Update /\ n \in NodeId /\ NodeOwn(n, x) /\ UpdateId(u) \notin x.applied
      /\ y = [clock |-> y.clock, state |-> y.state, applied |-> x.applied \cup {UpdateId(u)},
              all |-> Append(x.all, u), outbox |-> Append(x.outbox, u)]
      /\ y.clock \in Clocks /\ y.state \in States
  BY DEF Tracked, NodeOwn
<1>2. x.all \in Seq(Update) /\ x.outbox \in Seq(Update) /\ x.clock \in Clocks
  BY <1>1 DEF Node
<1>3. y \in Node
  <2>0. \A m \in NodeId : <<m>> \in Seq(NodeId)
    OBVIOUS
  <2>1. u.origin \in Seq(NodeId) /\ u.clock \in Clocks
    BY <1>1, <2>0 DEF Update
  <2>2. x.applied \cup {UpdateId(u)} \in SUBSET (Seq(NodeId) \X Clocks)
    BY <1>1, <2>1 DEF UpdateId, Node
  <2>3. Append(x.all, u) \in Seq(Update) /\ Append(x.outbox, u) \in Seq(Update)
    BY <1>1, <1>2
  <2>4. [clock |-> y.clock, state |-> y.state, applied |-> x.applied \cup {UpdateId(u)},
         all |-> Append(x.all, u), outbox |-> Append(x.outbox, u)] \in Node
    BY <1>1, <2>2, <2>3 DEF Node
  <2> QED
    BY <1>1, <2>4
<1>4. /\ y.all = Append(x.all, u) /\ y.outbox = Append(x.outbox, u)
      /\ y.applied = x.applied \cup {UpdateId(u)}
  BY <1>1
<1>5. Image(y.all) = Image(x.all) \cup {u} /\ Image(y.outbox) = Image(x.outbox) \cup {u}
  BY <1>2, <1>4, AppendImage
<1>6. /\ y.applied = {UpdateId(w) : w \in Image(y.all)}
      /\ Image(y.outbox) \subseteq Image(y.all)
  BY <1>1, <1>4, <1>5 DEF NodeOwn
<1>7. /\ IsFiniteSet(OwnIds(n, x)) /\ Cardinality(OwnIds(n, x)) = Time(x.clock, n)
      /\ Time(x.clock, n) \in Nat /\ Time(u.clock, n) \in Nat
      /\ Time(y.clock, n) = Larger(Time(x.clock, n), Time(u.clock, n))
  <2>1. IsClock(x.clock) /\ IsClock(u.clock)
    BY <1>1, <1>2, ClocksAreClocks DEF Update
  <2> QED
    BY <1>1, <2>1, TimeType DEF NodeOwn, Tracked
<1>8. IsFiniteSet(OwnIds(n, y)) /\ Cardinality(OwnIds(n, y)) = Time(y.clock, n)
  <2>1. CASE u.origin = <<n>>
    <3>1. OwnIds(n, y) = OwnIds(n, x) \cup {UpdateId(u)} /\ UpdateId(u) \notin OwnIds(n, x)
      BY <1>1, <1>4, <2>1 DEF OwnIds, UpdateId
    <3>2. Time(y.clock, n) = Time(x.clock, n) + 1
      BY <1>1, <1>7, <2>1 DEF Tracked, Larger
    <3> QED
      BY <1>7, <3>1, <3>2, FS_AddElement
  <2>2. CASE u.origin # <<n>>
    <3>1. OwnIds(n, y) = OwnIds(n, x)
      BY <1>4, <2>2 DEF OwnIds, UpdateId
    <3>2. Time(y.clock, n) = Time(x.clock, n)
      BY <1>7, <2>2 DEF Tracked, Larger
    <3> QED
      BY <1>7, <3>1, <3>2
  <2> QED
    BY <2>1, <2>2
<1> QED
  BY <1>3, <1>6, <1>8, TrackedClock, TrackedPast DEF NodeOwn

-----------------------------------------------------------------------------
(* What nodes know of each other.                                           *)

\* No update counts more commits of a node than that node made.
LEMMA SoundSays ==
  ASSUME NEW ns, NEW M, Sound(ns, M)
  PROVE  /\ \A u \in M : u \in Update /\ IsClock(u.clock)
         /\ \A n \in NodeId : ns[n] \in Node /\ IsClock(ns[n].clock) /\ Image(ns[n].all) \subseteq M
         /\ \A u \in M, m \in NodeId : Time(u.clock, m) <= Time(ns[m].clock, m)
<1>1. \A n \in NodeId : NodeOwn(n, ns[n]) /\ ns[n] \in Node /\ Image(ns[n].all) \subseteq M
  BY DEF Sound, NodeOwn, Made
<1>2. \A n \in NodeId : IsClock(ns[n].clock) /\ \A u \in Image(ns[n].all) : u \in Update
  BY <1>1, ClocksAreClocks DEF Node, Image
<1>3. \A u \in M : \E n \in NodeId : u \in Image(ns[n].all)
  BY DEF Sound, Made
<1>4. \A u \in M : u \in Update /\ IsClock(u.clock)
  <2>1. \A u \in M : u \in Update
    BY <1>2, <1>3
  <2> QED
    BY <2>1, ClocksAreClocks DEF Update
<1>5. ASSUME NEW u \in M, NEW m \in NodeId PROVE Time(u.clock, m) <= Time(ns[m].clock, m)
  <2>1. PICK n \in NodeId : u \in Image(ns[n].all)
    BY <1>3
  <2>2. Time(u.clock, m) <= Time(ns[n].clock, m)
    BY <1>1, <2>1 DEF NodeOwn, Covers
  <2>3. Time(ns[n].clock, m) <= Time(ns[m].clock, m)
    BY DEF Sound, HeardOf
  <2>4. Time(u.clock, m) \in Nat /\ Time(ns[n].clock, m) \in Nat /\ Time(ns[m].clock, m) \in Nat
    BY <1>2, <1>4, TimeType
  <2> QED
    BY <2>2, <2>3, <2>4
<1> QED
  BY <1>1, <1>2, <1>4, <1>5

\* A state stays one, whatever operations an update has.
LEMMA StateTyped ==
  ASSUME FloatsRound, NEW s \in States, NEW u \in Update
  PROVE  StateWith(s, u) \in States
<1>1. u.operations \in Seq(AlgebraicOperation)
  BY DEF Update
<1>2. Len(u.operations) \in 0..Len(u.operations)
  BY <1>1
<1> QED
  BY <1>1, <1>2, StatesFollow DEF StateWith

LEMMA TrackIs ==
  ASSUME NEW x \in Node, NEW u
  PROVE  Track(ApplyUpdate(x, u), u) =
           [clock |-> MergeClocks(x.clock, u.clock), state |-> StateWith(x.state, u),
            applied |-> x.applied \cup {UpdateId(u)},
            all |-> Append(x.all, u), outbox |-> Append(x.outbox, u)]
<1>1. x = [clock |-> x.clock, state |-> x.state, applied |-> x.applied,
           all |-> x.all, outbox |-> x.outbox]
  BY DEF Node
<1>2. PICK z : z = ApplyUpdate(x, u)
  OBVIOUS
<1>3. z = [x EXCEPT !.state = StateWith(x.state, u), !.clock = MergeClocks(x.clock, u.clock)]
  BY <1>2 DEF ApplyUpdate
<1>4. z = [clock |-> MergeClocks(x.clock, u.clock), state |-> StateWith(x.state, u),
           applied |-> x.applied, all |-> x.all, outbox |-> x.outbox]
  BY <1>1, <1>3
<1>5. Track(z, u) = [z EXCEPT !.applied = z.applied \cup {UpdateId(u)},
                              !.all = Append(z.all, u), !.outbox = Append(z.outbox, u)]
  BY DEF Track
<1>6. Track(z, u) = [clock |-> MergeClocks(x.clock, u.clock), state |-> StateWith(x.state, u),
                     applied |-> x.applied \cup {UpdateId(u)},
                     all |-> Append(x.all, u), outbox |-> Append(x.outbox, u)]
  BY <1>4, <1>5
<1> QED
  BY <1>2, <1>6

\* What a node takes in is added up with what it had.
LEMMA TrackAdds ==
  ASSUME FloatsRound, NEW ns, NEW M, Sound(ns, M), NEW n \in NodeId, NEW u \in Update, GivenMessage(M \cup {u}),
         NEW y, Tracked(n, ns[n], u, y), y.state = StateWith(ns[n].state, u)
  PROVE  AddsUpNode(y)
<1> SUFFICES ASSUME TransactionsFit PROVE MergesTo(y.state, Image(y.all))
  BY DEF AddsUpNode
<1>1. PICK us : us = Image(ns[n].all)
  OBVIOUS
<1>2. /\ us \subseteq M /\ ns[n] \in Node /\ ns[n].applied = {UpdateId(w) : w \in us}
      /\ MergesTo(ns[n].state, us)
  BY <1>1, SoundSays DEF Sound, NodeOwn, AddsUpNode
<1>3. u \notin us /\ Image(y.all) = us \cup {u}
  <2>1. UpdateId(u) \notin ns[n].applied /\ y.all = Append(ns[n].all, u)
    BY DEF Tracked
  <2>2. ns[n].all \in Seq(Update)
    BY <1>2 DEF Node
  <2> QED
    BY <1>1, <1>2, <2>1, <2>2, AppendImage
<1>4. PICK T : T = M \cup {u}
  OBVIOUS
<1>5. /\ IsFiniteSet(T) /\ Cardinality(T) <= MaxCommits /\ us \cup {u} \subseteq T
      /\ \A w \in us \cup {u} : w.operations \in Transactions
  BY <1>2, <1>4 DEF GivenMessage
<1>6. /\ IsFiniteSet(us \cup {u}) /\ Cardinality(us \cup {u}) <= Cardinality(T)
      /\ IsFiniteSet(us)
  <2>1. us \subseteq T
    BY <1>5
  <2> QED
    BY <1>5, <2>1, FS_Subset
<1>7. Cardinality(us) + 1 <= MaxCommits
  <2>1. Cardinality(us \cup {u}) = Cardinality(us) + 1 /\ Cardinality(us) \in Nat
    BY <1>3, <1>6, FS_AddElement, FS_CardinalityType
  <2>2. Cardinality(T) \in Nat /\ MaxCommits \in Nat
    BY <1>5, FS_CardinalityType, BoundAssumption
  <2> QED
    BY <1>5, <1>6, <2>1, <2>2
<1>8. ns[n].state \in States
  BY <1>2 DEF Node
<1>9. MergesTo(StateWith(ns[n].state, u), us \cup {u})
  BY <1>2, <1>3, <1>5, <1>6, <1>7, <1>8, UpdateMerges
<1> QED
  BY <1>3, <1>9

\* receive_update: an update of another node, which is new or ignored.
LEMMA ReceiveTracks ==
  ASSUME FloatsRound, NEW ns, NEW M, Sound(ns, M), NEW n \in NodeId, NEW u \in M,
         UpdateId(u) \notin ns[n].applied
  PROVE  Tracked(n, ns[n], u, Track(ApplyUpdate(ns[n], u), u))
<1> DEFINE x == ns[n]
           y == Track(ApplyUpdate(x, u), u)
<1>1. x \in Node /\ u \in Update /\ NodeOwn(n, x) /\ IsClock(x.clock) /\ IsClock(u.clock)
      /\ Time(u.clock, n) <= Time(x.clock, n)
  BY SoundSays DEF Sound
<1>2. y = [clock |-> MergeClocks(x.clock, u.clock), state |-> StateWith(x.state, u),
           applied |-> x.applied \cup {UpdateId(u)},
           all |-> Append(x.all, u), outbox |-> Append(x.outbox, u)]
  BY <1>1, TrackIs
<1>3. x.clock \in Clocks /\ u.clock \in Clocks /\ x.state \in States
  BY <1>1 DEF Node, Update
<1>4. y.clock \in Clocks /\ y.state \in States
  BY <1>1, <1>2, <1>3, ClocksGoOn, StateTyped
<1>5. \A m \in NodeId : Time(y.clock, m) = Larger(Time(x.clock, m), Time(u.clock, m))
  BY <1>1, <1>2, MergeTime
<1>6. u.origin # <<n>>
  <2>1. u.origin = <<n>> => u \in Image(x.all)
    BY DEF Sound, HeardOf
  <2>2. u \in Image(x.all) => UpdateId(u) \in x.applied
    BY <1>1 DEF NodeOwn
  <2> QED
    BY <2>1, <2>2
<1>7. y = [clock |-> y.clock, state |-> y.state, applied |-> x.applied \cup {UpdateId(u)},
           all |-> Append(x.all, u), outbox |-> Append(x.outbox, u)]
  BY <1>2
<1> HIDE DEF y
<1> QED
  BY <1>1, <1>4, <1>5, <1>6, <1>7 DEF Tracked, y

LEMMA ReceiveSound ==
  ASSUME FloatsRound, NEW ns, NEW M, Sound(ns, M), NEW n \in NodeId, NEW u \in M
  PROVE  Sound([ns EXCEPT ![n] = ReceiveUpdate(@, u)], M)
<1> DEFINE x == ns[n]
<1>0. ns = [m \in NodeId |-> ns[m]]
  BY DEF Sound
<1>1. CASE UpdateId(u) \in x.applied
  <2>1. [ns EXCEPT ![n] = ReceiveUpdate(@, u)] = ns
    BY <1>0, <1>1 DEF ReceiveUpdate
  <2> QED
    BY <2>1
<1>2. CASE UpdateId(u) \notin x.applied
  <2>1. PICK y : y = Track(ApplyUpdate(x, u), u)
    OBVIOUS
  <2>2. PICK after : after = [ns EXCEPT ![n] = ReceiveUpdate(@, u)]
    OBVIOUS
  <2>3. /\ after = [m \in NodeId |-> after[m]] /\ after[n] = y
        /\ \A m \in NodeId \ {n} : after[m] = ns[m]
    BY <1>0, <1>2, <2>1, <2>2 DEF ReceiveUpdate
  <2>4. Tracked(n, x, u, y)
    BY <1>2, <2>1, ReceiveTracks
  <2>5. NodeOwn(n, y)
    BY <2>4, TrackedOwn
  <2>6. \A m \in NodeId : NodeOwn(m, after[m])
    BY <2>3, <2>5 DEF Sound
  <2>7. /\ \A w \in M : w \in Update /\ IsClock(w.clock)
        /\ \A m \in NodeId : ns[m] \in Node /\ IsClock(ns[m].clock) /\ Image(ns[m].all) \subseteq M
        /\ \A w \in M, m \in NodeId : Time(w.clock, m) <= Time(ns[m].clock, m)
    BY SoundSays
  <2>8. IsClock(y.clock) /\ Image(y.all) = Image(x.all) \cup {u}
        /\ \A m \in NodeId : Time(y.clock, m) = Larger(Time(x.clock, m), Time(u.clock, m))
    <3>1. y.all = Append(x.all, u) /\ y.clock \in Clocks
          /\ \A m \in NodeId : Time(y.clock, m) = Larger(Time(x.clock, m), Time(u.clock, m))
      BY <2>4 DEF Tracked
    <3>2. x.all \in Seq(Update)
      BY <2>7 DEF Node
    <3> QED
      BY <3>1, <3>2, AppendImage, ClocksAreClocks
  <2>9. M = Made(after)
    <3>1. \A m \in NodeId : Image(ns[m].all) \subseteq Image(after[m].all)
                            /\ Image(after[m].all) \subseteq Image(ns[m].all) \cup {u}
      BY <2>3, <2>8
    <3>2. M = UNION {Image(ns[m].all) : m \in NodeId}
      BY DEF Sound, Made
    <3>3. \A w \in Made(after) : w \in M
      BY <3>1, <3>2 DEF Made
    <3>4. \A w \in M : w \in Made(after)
      BY <3>1, <3>2 DEF Made
    <3> QED
      BY <3>3, <3>4
  <2>10. /\ \A m, k \in NodeId : /\ Time(ns[k].clock, m) \in Nat /\ Time(after[k].clock, m) \in Nat
                                 /\ Time(ns[k].clock, m) <= Time(ns[m].clock, m)
                                 /\ Time(ns[k].clock, m) <= Time(after[k].clock, m)
         /\ \A w \in M, m \in NodeId : Time(w.clock, m) \in Nat
    <3>1. \A k \in NodeId : IsClock(after[k].clock) /\ IsClock(ns[k].clock)
      BY <2>3, <2>7, <2>8
    <3>2. \A m, k \in NodeId : Time(ns[k].clock, m) \in Nat /\ Time(after[k].clock, m) \in Nat
      BY <3>1, TimeType
    <3>3. \A w \in M, m \in NodeId : Time(w.clock, m) \in Nat
      BY <2>7, TimeType
    <3>4. \A m, k \in NodeId : Time(ns[k].clock, m) <= Time(after[k].clock, m)
      BY <2>3, <2>8, <3>2, <3>3 DEF Larger
    <3> QED
      BY <3>2, <3>3, <3>4 DEF Sound, HeardOf
  <2>11. \A m, k \in NodeId : Time(after[k].clock, m) <= Time(after[m].clock, m)
    <3> SUFFICES ASSUME NEW m \in NodeId, NEW k \in NodeId
                 PROVE  Time(after[k].clock, m) <= Time(after[m].clock, m)
      OBVIOUS
    <3>1. Time(after[k].clock, m) <= Time(ns[m].clock, m)
      <4>1. CASE k # n
        BY <2>3, <2>10, <4>1
      <4>2. CASE k = n
        <5>1. Time(u.clock, m) <= Time(ns[m].clock, m) /\ Time(x.clock, m) <= Time(ns[m].clock, m)
          BY <2>7, <2>10
        <5> QED
          BY <2>3, <2>8, <4>2, <5>1 DEF Larger
      <4> QED
        BY <4>1, <4>2
    <3>2. Time(ns[m].clock, m) <= Time(after[m].clock, m)
      BY <2>10
    <3> QED
      BY <2>10, <3>1, <3>2
  <2>12. ASSUME NEW k \in NodeId, NEW w \in M PROVE Knows(after[k].clock, w)
    <3>1. CASE k # n
      BY <2>3, <3>1 DEF Sound, HeardOf
    <3>2. CASE k = n
      <4> SUFFICES ASSUME NEW m \in NodeId, w.origin = <<m>>, Time(w.clock, m) <= Time(y.clock, m)
                   PROVE  Covers(y.clock, w.clock)
        BY <2>3, <3>2 DEF Knows
      <4>1. Knows(x.clock, w) /\ Knows(u.clock, w)
        BY DEF Sound, HeardOf, Causal
      <4>2. Covers(x.clock, w.clock) \/ Covers(u.clock, w.clock)
        BY <2>8, <4>1 DEF Knows, Larger
      <4> QED
        BY <2>8, <2>10, <4>2 DEF Covers, Larger
    <3> QED
      BY <3>1, <3>2
  <2>13. \A w \in M, m \in NodeId : w.origin = <<m>> => w \in Image(after[m].all)
    <3>1. \A w \in M, m \in NodeId : w.origin = <<m>> => w \in Image(ns[m].all)
      BY DEF Sound, HeardOf
    <3> QED
      BY <2>3, <2>8, <3>1
  <2>14. HeardOf(after, M)
    BY <2>11, <2>12, <2>13 DEF HeardOf
  <2>15. GivenMessage(M) /\ \A m \in NodeId : AddsUpNode(after[m])
    <3>1. GivenMessage(M) /\ M \cup {u} = M /\ u \in Update /\ \A m \in NodeId : AddsUpNode(ns[m])
      BY <2>7 DEF Sound
    <3>2. GivenMessage(M \cup {u})
      BY <3>1
    <3>3. y.state = StateWith(ns[n].state, u)
      <4>1. PICK z \in Node : z = ns[n]
        BY <2>7
      <4>2. Track(ApplyUpdate(z, u), u).state = StateWith(z.state, u)
        BY TrackIs
      <4> QED
        BY <2>1, <4>1, <4>2
    <3>4. AddsUpNode(y)
      BY <2>4, <3>1, <3>2, <3>3, TrackAdds
    <3> QED
      BY <2>3, <3>1, <3>4
  <2>16. Causal(M)
    BY DEF Sound
  <2> QED
    BY <2>2, <2>3, <2>6, <2>9, <2>14, <2>15, <2>16 DEF Sound
<1> QED
  BY <1>1, <1>2

\* commit: its tick is beyond what any clock counts, so the update is new, and
\* only what its node had seen is covered by it.
LEMMA CommitTracks ==
  ASSUME FloatsRound, NEW ns, NEW M, Sound(ns, M), NEW n \in NodeId, NEW u \in Update,
         u.origin = <<n>>, u.clock = Tick(ns[n].clock, n)
  PROVE  /\ Tracked(n, ns[n], u, Track(ApplyUpdate(ns[n], u), u))
         /\ \A w \in M : Time(w.clock, n) < Time(u.clock, n)
<1> DEFINE x == ns[n]
           y == Track(ApplyUpdate(x, u), u)
<1>1. x \in Node /\ NodeOwn(n, x) /\ IsClock(x.clock) /\ IsClock(u.clock)
  BY SoundSays, ClocksAreClocks DEF Sound, Update
<1>2. y = [clock |-> MergeClocks(x.clock, u.clock), state |-> StateWith(x.state, u),
           applied |-> x.applied \cup {UpdateId(u)},
           all |-> Append(x.all, u), outbox |-> Append(x.outbox, u)]
  BY <1>1, TrackIs
<1>3. x.clock \in Clocks /\ u.clock \in Clocks /\ x.state \in States
  BY <1>1 DEF Node, Update
<1>4. y.clock \in Clocks /\ y.state \in States
  BY <1>1, <1>2, <1>3, ClocksGoOn, StateTyped
<1>5. \A m \in NodeId : Time(y.clock, m) = Larger(Time(x.clock, m), Time(u.clock, m))
  BY <1>1, <1>2, MergeTime
<1>6. \A m \in NodeId : Time(u.clock, m) = Time(x.clock, m) + IF m = n THEN 1 ELSE 0
  <2>1. \A m \in NodeId : Time(x.clock, m) \in Nat
    BY <1>1, TimeType
  <2>2. /\ Time(u.clock, n) = Time(x.clock, n) + 1
        /\ \A m \in NodeId \ {n} : Time(u.clock, m) = Time(x.clock, m)
    BY <1>1, TickTime
  <2> QED
    BY <2>1, <2>2
<1>7. \A w \in M : Time(w.clock, n) < Time(u.clock, n)
  <2>1. \A w \in M : IsClock(w.clock) /\ Time(w.clock, n) <= Time(x.clock, n)
    BY SoundSays
  <2>2. Time(x.clock, n) \in Nat /\ \A w \in M : Time(w.clock, n) \in Nat
    BY <1>1, <2>1, TimeType
  <2> QED
    BY <1>6, <2>1, <2>2
<1>8. UpdateId(u) \notin x.applied
  <2>1. \A w \in Image(x.all) : w \in M
    BY SoundSays
  <2>2. \A w \in Image(x.all) : IsClock(w.clock) /\ w.clock # u.clock
    BY <1>1, <1>7, <2>1, SoundSays, TimeType
  <2> QED
    BY <1>1, <2>2 DEF NodeOwn, UpdateId
<1>9. y = [clock |-> y.clock, state |-> y.state, applied |-> x.applied \cup {UpdateId(u)},
           all |-> Append(x.all, u), outbox |-> Append(x.outbox, u)]
  BY <1>2
<1> HIDE DEF y
<1> QED
  BY <1>1, <1>4, <1>5, <1>6, <1>7, <1>8, <1>9 DEF Tracked, y

LEMMA CommitCausal ==
  ASSUME NEW ns, NEW M, Sound(ns, M), NEW n \in NodeId, NEW u \in Update,
         u.origin = <<n>>, u.clock = Tick(ns[n].clock, n),
         \A w \in M : Time(w.clock, n) < Time(u.clock, n)
  PROVE  /\ Causal(M \cup {u})
         /\ \A c : IsClock(c) /\ (\A m \in NodeId : Time(c, m) = Time(u.clock, m)) =>
              \A w \in M \cup {u} : Knows(c, w)
<1>1. /\ IsClock(ns[n].clock) /\ IsClock(u.clock)
      /\ \A w \in M : w \in Update /\ IsClock(w.clock) /\ Time(w.clock, n) <= Time(ns[n].clock, n)
  BY SoundSays, ClocksAreClocks DEF Update
<1>2. /\ Time(u.clock, n) = Time(ns[n].clock, n) + 1
      /\ \A m \in NodeId \ {n} : Time(u.clock, m) = Time(ns[n].clock, m)
  BY <1>1, TickTime
<1>3. /\ \A m \in NodeId : Time(ns[n].clock, m) \in Nat /\ Time(u.clock, m) \in Nat
      /\ \A w \in M : \A m \in NodeId : Time(w.clock, m) \in Nat
  BY <1>1, TimeType
<1>4. ASSUME NEW c, \A m \in NodeId : Time(c, m) = Time(u.clock, m), NEW w \in M \cup {u}
      PROVE  Knows(c, w)
  <2>1. CASE w = u
    BY <1>3, <1>4, <2>1 DEF Knows, Covers
  <2>2. CASE w \in M
    <3> SUFFICES ASSUME NEW m \in NodeId, w.origin = <<m>>, Time(w.clock, m) <= Time(c, m)
                 PROVE  Covers(c, w.clock)
      BY DEF Knows
    <3>1. Time(w.clock, m) <= Time(ns[n].clock, m)
      BY <1>1, <1>2, <1>4, <2>2
    <3>2. Covers(ns[n].clock, w.clock)
      BY <2>2, <3>1 DEF Sound, HeardOf, Knows
    <3> QED
      BY <1>2, <1>3, <1>4, <2>2, <3>2 DEF Covers
  <2> QED
    BY <1>4, <2>1, <2>2
<1>5. ASSUME NEW w \in M PROVE Knows(w.clock, u) /\ w.clock # u.clock
  <2>1. ~(Time(u.clock, n) <= Time(w.clock, n))
    BY <1>3
  <2>2. \A m \in NodeId : u.origin = <<m>> => m = n
    OBVIOUS
  <2> QED
    BY <1>3, <2>1, <2>2 DEF Knows
<1>6. ASSUME NEW v \in M \cup {u}, NEW w \in M \cup {u}
      PROVE  Knows(w.clock, v) /\ (v.clock = w.clock => v = w)
  <2>1. CASE w = u
    <3>1. \A m \in NodeId : Time(w.clock, m) = Time(u.clock, m)
      BY <2>1
    <3> QED
      BY <1>4, <1>5, <2>1, <3>1
  <2>2. CASE w \in M /\ v \in M
    BY <2>2 DEF Sound, Causal
  <2>3. CASE w \in M /\ v = u
    BY <1>5, <2>3
  <2> QED
    BY <2>1, <2>2, <2>3
<1>7. ASSUME NEW w \in M \cup {u}, NEW m \in NodeId, w.origin = <<m>>
      PROVE  Time(w.clock, m) > 0
  <2>1. CASE w = u
    <3>1. m = n
      BY <1>7, <2>1
    <3> QED
      BY <1>2, <1>3, <2>1, <3>1
  <2>2. CASE w \in M
    BY <1>7, <2>2 DEF Sound, Causal
  <2> QED
    BY <2>1, <2>2
<1> QED
  BY <1>4, <1>6, <1>7 DEF Causal

LEMMA CommitSound ==
  ASSUME FloatsRound, NEW ns, NEW M, Sound(ns, M), NEW n \in NodeId, NEW u \in Update,
         u.origin = <<n>>, u.clock = Tick(ns[n].clock, n), GivenMessage(M \cup {u})
  PROVE  Sound([ns EXCEPT ![n] = Track(ApplyUpdate(@, u), u)], M \cup {u})
<1> DEFINE x == ns[n]
<1>0. ns = [m \in NodeId |-> ns[m]]
  BY DEF Sound
<1>1. PICK y : y = Track(ApplyUpdate(x, u), u)
  OBVIOUS
<1>2. PICK after : after = [ns EXCEPT ![n] = Track(ApplyUpdate(@, u), u)]
  OBVIOUS
<1>3. /\ after = [m \in NodeId |-> after[m]] /\ after[n] = y
      /\ \A m \in NodeId \ {n} : after[m] = ns[m]
  BY <1>0, <1>1, <1>2
<1>4. Tracked(n, x, u, y) /\ \A w \in M : Time(w.clock, n) < Time(u.clock, n)
  BY <1>1, CommitTracks
<1>5. \A m \in NodeId : NodeOwn(m, after[m])
  BY <1>3, <1>4, TrackedOwn DEF Sound
<1>6. /\ \A w \in M : w \in Update /\ IsClock(w.clock)
      /\ \A m \in NodeId : ns[m] \in Node /\ IsClock(ns[m].clock) /\ Image(ns[m].all) \subseteq M
  BY SoundSays
<1>7. /\ IsClock(y.clock) /\ IsClock(u.clock) /\ Image(y.all) = Image(x.all) \cup {u}
      /\ \A m \in NodeId : Time(y.clock, m) = Larger(Time(x.clock, m), Time(u.clock, m))
      /\ \A m \in NodeId : Time(u.clock, m) = Time(x.clock, m) + IF m = n THEN 1 ELSE 0
  <2>1. /\ y.all = Append(x.all, u) /\ y.clock \in Clocks
        /\ \A m \in NodeId : Time(y.clock, m) = Larger(Time(x.clock, m), Time(u.clock, m))
        /\ \A m \in NodeId : Time(u.clock, m) = Time(x.clock, m) + IF m = n THEN 1 ELSE 0
    BY <1>4 DEF Tracked
  <2>2. x.all \in Seq(Update) /\ u.clock \in Clocks
    BY <1>6 DEF Node, Update
  <2> QED
    BY <2>1, <2>2, AppendImage, ClocksAreClocks
<1>8. \A m, k \in NodeId : Time(ns[k].clock, m) \in Nat /\ Time(u.clock, m) \in Nat
                           /\ Time(ns[k].clock, m) <= Time(ns[m].clock, m)
  BY <1>6, <1>7, TimeType DEF Sound, HeardOf
<1>9. \A m \in NodeId : Time(y.clock, m) = Time(u.clock, m)
  BY <1>7, <1>8 DEF Larger
<1>10. Causal(M \cup {u}) /\ \A w \in M \cup {u} : Knows(y.clock, w)
  BY <1>4, <1>7, <1>9, CommitCausal
<1>11. M \cup {u} = Made(after)
  <2>1. \A m \in NodeId : /\ Image(ns[m].all) \subseteq Image(after[m].all)
                          /\ Image(after[m].all) \subseteq Image(ns[m].all) \cup {u}
    BY <1>3, <1>7
  <2>2. u \in Image(after[n].all)
    BY <1>3, <1>7
  <2>3. M = UNION {Image(ns[m].all) : m \in NodeId}
    BY DEF Sound, Made
  <2>4. \A w \in Made(after) : w \in M \cup {u}
    BY <2>1, <2>3 DEF Made
  <2>5. \A w \in M \cup {u} : w \in Made(after)
    BY <2>1, <2>2, <2>3 DEF Made
  <2> QED
    BY <2>4, <2>5
<1>12. \A m, k \in NodeId : Time(after[k].clock, m) <= Time(after[m].clock, m)
  BY <1>3, <1>7, <1>8, <1>9
<1>13. ASSUME NEW k \in NodeId, NEW w \in M \cup {u} PROVE Knows(after[k].clock, w)
  <2>1. CASE k = n
    BY <1>3, <1>10, <2>1
  <2>2. CASE k # n /\ w \in M
    BY <1>3, <2>2 DEF Sound, HeardOf
  <2>3. CASE k # n /\ w = u
    <3>1. ~(Time(u.clock, n) <= Time(ns[k].clock, n))
      BY <1>7, <1>8
    <3>2. \A m \in NodeId : u.origin = <<m>> => m = n
      OBVIOUS
    <3> QED
      BY <1>3, <2>3, <3>1, <3>2 DEF Knows
  <2> QED
    BY <2>1, <2>2, <2>3
<1>14. \A w \in M \cup {u}, m \in NodeId : w.origin = <<m>> => w \in Image(after[m].all)
  <2>1. \A w \in M, m \in NodeId : w.origin = <<m>> => w \in Image(ns[m].all)
    BY DEF Sound, HeardOf
  <2>2. \A m \in NodeId : u.origin = <<m>> => m = n
    OBVIOUS
  <2> QED
    BY <1>3, <1>7, <2>1, <2>2
<1>15. HeardOf(after, M \cup {u})
  BY <1>12, <1>13, <1>14 DEF HeardOf
<1>16. \A m \in NodeId : AddsUpNode(after[m])
  <2>1. y.state = StateWith(ns[n].state, u)
    <3>1. PICK z \in Node : z = ns[n]
      BY <1>6
    <3>2. Track(ApplyUpdate(z, u), u).state = StateWith(z.state, u)
      BY TrackIs
    <3> QED
      BY <1>1, <3>1, <3>2
  <2>2. AddsUpNode(y)
    BY <1>4, <2>1, TrackAdds
  <2>3. \A m \in NodeId : AddsUpNode(ns[m])
    BY DEF Sound
  <2> QED
    BY <1>3, <2>2, <2>3
<1> QED
  BY <1>2, <1>3, <1>5, <1>10, <1>11, <1>15, <1>16 DEF Sound

-----------------------------------------------------------------------------
(* Outboxes and messages                                                    *)

\* What waits in an outbox matters to nobody, as long as its node applied it.
LEMMA OutboxSound ==
  ASSUME NEW ns, NEW M, Sound(ns, M), NEW after, after = [n \in NodeId |-> after[n]],
         \A n \in NodeId : /\ after[n] = [ns[n] EXCEPT !.outbox = after[n].outbox]
                           /\ after[n].outbox \in Seq(Update)
                           /\ Image(after[n].outbox) \subseteq Image(ns[n].all)
  PROVE  Sound(after, M)
<1>1. ASSUME NEW n \in NodeId
      PROVE  /\ after[n] \in Node /\ after[n].clock = ns[n].clock
             /\ after[n].applied = ns[n].applied /\ after[n].all = ns[n].all
             /\ after[n].state = ns[n].state
  <2>1. ns[n] \in Node
    BY SoundSays
  <2>2. PICK o : o = after[n].outbox /\ o \in Seq(Update)
    OBVIOUS
  <2>3. after[n] = [ns[n] EXCEPT !.outbox = o]
    BY <2>2
  <2> QED
    BY <2>1, <2>2, <2>3 DEF Node
<1>2. ASSUME NEW n \in NodeId PROVE NodeOwn(n, after[n])
  <2>1. NodeOwn(n, ns[n])
    BY DEF Sound
  <2>2. OwnIds(n, after[n]) = OwnIds(n, ns[n])
    BY <1>1 DEF OwnIds
  <2>3. Image(after[n].outbox) \subseteq Image(after[n].all)
    BY <1>1
  <2> QED
    BY <1>1, <2>1, <2>2, <2>3 DEF NodeOwn
<1>3. Made(after) = Made(ns)
  BY <1>1 DEF Made
<1>4. HeardOf(after, M)
  BY <1>1 DEF Sound, HeardOf
<1>5. \A n \in NodeId : AddsUpNode(after[n])
  <2>1. \A n \in NodeId : AddsUpNode(ns[n])
    BY DEF Sound
  <2> QED
    BY <1>1, <2>1 DEF AddsUpNode
<1> QED
  BY <1>2, <1>3, <1>4, <1>5 DEF Sound

LEMMA ConcatImage ==
  ASSUME NEW S, NEW p \in Seq(S), NEW q \in Seq(S)
  PROVE  p \o q \in Seq(S) /\ Image(p \o q) \subseteq Image(p) \cup Image(q)
<1>1. PICK N \in Nat : N = Len(p)
  OBVIOUS
<1>2. \A i \in DOMAIN (p \o q) : /\ i <= N => i \in DOMAIN p /\ (p \o q)[i] = p[i]
                                 /\ ~(i <= N) => i - N \in DOMAIN q /\ (p \o q)[i] = q[i - N]
  BY <1>1
<1>3. ASSUME NEW x \in Image(p \o q) PROVE x \in Image(p) \cup Image(q)
  BY <1>2 DEF Image
<1>4. p \o q \in Seq(S)
  OBVIOUS
<1> QED
  BY <1>3, <1>4

\* requeue_all_updates
LEMMA RequeueSound ==
  ASSUME NEW ns, NEW M, Sound(ns, M)
  PROVE  Sound(Requeued(ns), M)
<1>1. PICK after : after = Requeued(ns)
  OBVIOUS
<1>2. after = [n \in NodeId |-> [ns[n] EXCEPT !.outbox = ns[n].outbox \o ns[n].all]]
  BY <1>1 DEF Requeued
<1>3. ASSUME NEW n \in NodeId
      PROVE  /\ after[n] = [ns[n] EXCEPT !.outbox = after[n].outbox]
             /\ after[n].outbox \in Seq(Update)
             /\ Image(after[n].outbox) \subseteq Image(ns[n].all)
  <2>1. ns[n] \in Node /\ ns[n].outbox \in Seq(Update) /\ ns[n].all \in Seq(Update)
        /\ Image(ns[n].outbox) \subseteq Image(ns[n].all)
    BY DEF Sound, NodeOwn, Node
  <2>2. PICK o : o = ns[n].outbox \o ns[n].all
    OBVIOUS
  <2>3. o \in Seq(Update) /\ Image(o) \subseteq Image(ns[n].all)
    BY <2>1, <2>2, ConcatImage
  <2>4. after[n] = [ns[n] EXCEPT !.outbox = o]
    BY <1>2, <2>2
  <2>5. after[n].outbox = o
    BY <2>1, <2>4 DEF Node
  <2> QED
    BY <2>3, <2>4, <2>5
<1>4. after = [n \in NodeId |-> after[n]]
  BY <1>2
<1> QED
  BY <1>1, <1>3, <1>4, OutboxSound

\* What broadcast_all sends are messages with updates somebody applied.
LEMMA BroadcastTyped ==
  ASSUME NEW M, Sound(nodes, M)
  PROVE  FlattenSeq([n \in NodeId |-> Outgoing(n)]) \in Seq(Messages(M))
<1>1. PICK N \in Nat : NodeId = 1..N
  BY NodeAssumption, FS_CardinalityType
<1>2. ASSUME NEW n \in NodeId, NEW u \in M PROVE Copies(n, u) \in Seq(Messages(M))
  <2>1. ASSUME NEW m \in NodeId, m # n PROVE Message(n, m, u) \in Messages(M)
    BY <2>1, BoundAssumption DEF Message, Messages
  <2>2. PICK q : q = [m \in NodeId |->
          IF m # n /\ ~IsPartitioned(n, m) THEN <<Message(n, m, u)>> ELSE <<>>]
    OBVIOUS
  <2>3. q \in [1..N -> Seq(Messages(M))]
    <3>1. \A e \in Messages(M) : <<e>> \in Seq(Messages(M))
      OBVIOUS
    <3>2. <<>> \in Seq(Messages(M))
      OBVIOUS
    <3>3. \A m \in NodeId :
            (IF m # n /\ ~IsPartitioned(n, m) THEN <<Message(n, m, u)>> ELSE <<>>) \in Seq(Messages(M))
      BY <2>1, <3>1, <3>2
    <3> QED
      BY <1>1, <2>2, <3>3
  <2>4. FlattenSeq(q) \in Seq(Messages(M))
    BY <2>3, FlattenTyped
  <2> QED
    BY <2>2, <2>4 DEF Copies
<1>3. ASSUME NEW n \in NodeId PROVE Outgoing(n) \in Seq(Messages(M))
  <2>1. nodes[n] \in Node /\ Image(nodes[n].outbox) \subseteq M
    <3>1. nodes[n] \in Node /\ Image(nodes[n].all) \subseteq M
      BY SoundSays
    <3>2. Image(nodes[n].outbox) \subseteq Image(nodes[n].all)
      BY DEF Sound, NodeOwn
    <3> QED
      BY <3>1, <3>2
  <2>2. PICK box \in Seq(Update) : box = nodes[n].outbox
    BY <2>1 DEF Node
  <2>3. PICK K \in Nat : DOMAIN box = 1..K
    OBVIOUS
  <2>4. PICK q : q = [i \in DOMAIN box |-> Copies(n, box[i])]
    OBVIOUS
  <2>5. \A i \in 1..K : box[i] \in M
    BY <2>1, <2>2, <2>3 DEF Image
  <2>6. q \in [1..K -> Seq(Messages(M))]
    BY <1>2, <2>3, <2>4, <2>5
  <2>7. FlattenSeq(q) \in Seq(Messages(M))
    BY <2>6, FlattenTyped
  <2> QED
    BY <2>2, <2>4, <2>7 DEF Outgoing
<1>4. PICK q : q = [n \in NodeId |-> Outgoing(n)]
  OBVIOUS
<1>5. q \in [1..N -> Seq(Messages(M))]
  BY <1>1, <1>3, <1>4
<1>6. FlattenSeq(q) \in Seq(Messages(M))
  BY <1>5, FlattenTyped
<1> QED
  BY <1>4, <1>6

-----------------------------------------------------------------------------
(* A round of deliveries                                                    *)

\* What there can be after some of the messages.
Rounds(M) ==
  {a \in [nodes : [NodeId -> Node], delayed : Seq(Messages(M)), again : Seq(Messages(M))] :
     Sound(a.nodes, M)}

LEMMA RoundIs ==
  ASSUME NEW M, NEW ns, Sound(ns, M), NEW p \in Seq(Messages(M)), NEW q \in Seq(Messages(M))
  PROVE  [nodes |-> ns, delayed |-> p, again |-> q] \in Rounds(M)
<1>1. ns \in [NodeId -> Node]
  BY SoundSays DEF Sound
<1> QED
  BY <1>1 DEF Rounds

\* Whatever becomes of a message, nobody learns more than was sent.
LEMMA DeliverOneSound ==
  ASSUME FloatsRound, NEW M, NEW a \in Rounds(M), NEW m \in Messages(M),
         NEW fate \in Fates, NEW d \in 0..MaxDelay
  PROVE  DeliverOne(a, m, fate, d) \in Rounds(M)
<1>1. /\ a = [nodes |-> a.nodes, delayed |-> a.delayed, again |-> a.again]
      /\ a.nodes \in [NodeId -> Node] /\ Sound(a.nodes, M)
      /\ a.delayed \in Seq(Messages(M)) /\ a.again \in Seq(Messages(M))
  BY DEF Rounds
<1>2. PICK ns, p, q : a = [nodes |-> ns, delayed |-> p, again |-> q]
  BY <1>1
<1>3. Sound(ns, M) /\ p \in Seq(Messages(M)) /\ q \in Seq(Messages(M))
  BY <1>1, <1>2
<1>4. /\ m.to \in NodeId /\ m.update \in M /\ m.delay \in 0..MaxDelay
      /\ \A k \in 0..MaxDelay : [m EXCEPT !.delay = k] \in Messages(M)
  BY DEF Messages
<1>5. CASE IsPartitioned(m.from, m.to) \/ (Exposed(m) /\ fate = "dropped")
  <2>1. DeliverOne(a, m, fate, d) = a
    BY <1>5 DEF DeliverOne, Exposed
  <2> QED
    BY <2>1
<1>6. CASE ~IsPartitioned(m.from, m.to) /\ m.delay > 0
  <2>1. DeliverOne(a, m, fate, d) = [a EXCEPT !.delayed = Append(a.delayed, [m EXCEPT !.delay = m.delay - 1])]
    BY <1>6 DEF DeliverOne, Exposed
  <2>2. PICK r : r = [m EXCEPT !.delay = m.delay - 1]
    OBVIOUS
  <2>3. r \in Messages(M)
    <3>1. m.delay - 1 \in 0..MaxDelay
      BY <1>4, <1>6, BoundAssumption
    <3> QED
      BY <1>4, <2>2, <3>1
  <2>4. DeliverOne(a, m, fate, d) = [nodes |-> ns, delayed |-> Append(p, r), again |-> q]
    BY <1>2, <2>1, <2>2
  <2>5. Append(p, r) \in Seq(Messages(M))
    BY <1>3, <2>3
  <2> QED
    BY <1>3, <2>4, <2>5, RoundIs
<1>7. CASE Exposed(m) /\ fate = "delayed"
  <2>1. DeliverOne(a, m, fate, d) = [a EXCEPT !.delayed = Append(a.delayed, [m EXCEPT !.delay = d])]
    BY <1>7 DEF DeliverOne, Exposed
  <2>2. PICK r : r = [m EXCEPT !.delay = d]
    OBVIOUS
  <2>3. r \in Messages(M)
    BY <1>4, <2>2
  <2>4. DeliverOne(a, m, fate, d) = [nodes |-> ns, delayed |-> Append(p, r), again |-> q]
    BY <1>2, <2>1, <2>2
  <2>5. Append(p, r) \in Seq(Messages(M))
    BY <1>3, <2>3
  <2> QED
    BY <1>3, <2>4, <2>5, RoundIs
<1>8. CASE Exposed(m) /\ fate \in {"arrives", "duplicated"}
  <2>1. PICK after : after = [ns EXCEPT ![m.to] = ReceiveUpdate(@, m.update)]
    OBVIOUS
  <2>2. Sound(after, M)
    BY <1>3, <1>4, <2>1, ReceiveSound
  <2>3. PICK r : r = IF fate = "duplicated" THEN Append(q, m) ELSE q
    OBVIOUS
  <2>4. r \in Seq(Messages(M))
    BY <1>3, <2>3
  <2>5. DeliverOne(a, m, fate, d) =
          [a EXCEPT !.nodes[m.to] = ReceiveUpdate(@, m.update),
                    !.again = IF fate = "duplicated" THEN Append(@, m) ELSE @]
    BY <1>8 DEF DeliverOne, Exposed
  <2>6. DeliverOne(a, m, fate, d) = [nodes |-> after, delayed |-> p, again |-> r]
    BY <1>2, <2>1, <2>3, <2>5
  <2> QED
    BY <1>3, <2>2, <2>4, <2>6, RoundIs
<1>9. m.delay > 0 \/ m.delay = 0
  BY <1>4
<1> QED
  BY <1>5, <1>6, <1>7, <1>8, <1>9 DEF Exposed, Fates

\* The rounds that messages go through, from first to last.
Repeated(R, first, N, deliver, f) ==
  f \in [0..N -> R] /\ f[0] = first /\ \A j \in 1..N : f[j] = deliver[j][f[j - 1]]

LEMMA RoundsRepeat ==
  ASSUME NEW R, NEW first, first \in R, NEW N \in Nat, NEW deliver \in [1..N -> [R -> R]]
  PROVE  \E f : Repeated(R, first, N, deliver, f)
<1> DEFINE f == Iteration(R, first, N, deliver)
<1>1. f \in [0..N -> R] /\ f[0] = first /\ \A j \in 1..N : f[j] = deliver[j][f[j - 1]]
  BY Iterates
<1> HIDE DEF f
<1> QED
  BY <1>1 DEF Repeated

LEMMA DeliveredSound ==
  ASSUME FloatsRound, NEW M, Sound(nodes, M), messages \in Seq(Messages(M)),
         NEW i, NEW fate \in Fates, NEW d \in 0..MaxDelay
  PROVE  Delivered(i, fate, d)[Len(messages)] \in Rounds(M)
<1>1. PICK N \in Nat : N = Len(messages) /\ \A j \in 1..N : messages[j] \in Messages(M)
  OBVIOUS
<1>2. PICK R : R = Rounds(M)
  OBVIOUS
<1>3. PICK first : first = [nodes |-> nodes, delayed |-> <<>>, again |-> <<>>] /\ first \in R
  <2>1. <<>> \in Seq(Messages(M))
    OBVIOUS
  <2> QED
    BY <1>2, <2>1, RoundIs
<1> DEFINE fateOf(j) == IF j = i THEN fate ELSE "arrives"
<1>4. \A j \in 1..N, a \in R : DeliverOne(a, messages[j], fateOf(j), d) \in R
  <2>1. \A j \in 1..N : fateOf(j) \in Fates
    BY DEF Fates
  <2> HIDE DEF fateOf
  <2> QED
    BY <1>1, <1>2, <2>1, DeliverOneSound
<1>5. PICK deliver \in [1..N -> [R -> R]] :
        deliver = [j \in 1..N |-> [a \in R |-> DeliverOne(a, messages[j], fateOf(j), d)]]
  <2> HIDE DEF fateOf
  <2> QED
    BY <1>4
<1>6. PICK f \in [0..N -> R] : f[0] = first /\ \A j \in 1..N : f[j] = deliver[j][f[j - 1]]
  <2> HIDE DEF fateOf
  <2>1. first \in R
    BY <1>3
  <2>2. \E f : Repeated(R, first, N, deliver, f)
    BY <2>1, RoundsRepeat
  <2> QED
    BY <2>2 DEF Repeated
<1>7. \A j \in 1..N : f[j] = DeliverOne(f[j - 1], messages[j], fateOf(j), d)
  <2>1. \A j \in 1..N : f[j - 1] \in R
    BY <1>6
  <2> HIDE DEF fateOf
  <2> QED
    BY <1>5, <1>6, <2>1
<1>8. f = [j \in 0..N |-> IF j = 0 THEN [nodes |-> nodes, delayed |-> <<>>, again |-> <<>>]
                          ELSE DeliverOne(f[j - 1], messages[j], IF j = i THEN fate ELSE "arrives", d)]
  BY <1>3, <1>6, <1>7
<1> DEFINE after == Delivered(i, fate, d)
           G == {j \in 0..N : after[j] \in R}
<1>9. after = [j \in 0..N |-> IF j = 0 THEN [nodes |-> nodes, delayed |-> <<>>, again |-> <<>>]
                ELSE DeliverOne(after[j - 1], messages[j], IF j = i THEN fate ELSE "arrives", d)]
  BY <1>1, <1>8 DEF Delivered
<1> HIDE DEF after
<1>10. after[0] \in R /\ \A j \in 1..N : after[j] = DeliverOne(after[j - 1], messages[j], fateOf(j), d)
  BY <1>3, <1>9
<1>11. ASSUME NEW j \in 1..N, j - 1 \in G PROVE j \in G
  <2>1. after[j - 1] \in R
    BY <1>11
  <2>2. after[j] \in R
    <3> HIDE DEF fateOf
    <3> QED
      BY <1>4, <1>10, <2>1
  <2> QED
    BY <2>2
<1>12. 0..N \subseteq G
  <2>1. 0 \in G
    BY <1>10
  <2> HIDE DEF G
  <2> QED
    BY <1>11, <2>1, NaturalSteps
<1> QED
  BY <1>1, <1>2, <1>12 DEF after

LEMMA DeliverOwn ==
  ASSUME FloatsRound, GossipInv, NEW i, NEW fate \in Fates, NEW d \in 0..MaxDelay,
         DeliverMessages(i, fate, d), events' \in 0..MaxEvents
  PROVE  GossipInv'
<1>1. PICK M : M = Made(nodes)
  OBVIOUS
<1>2. PICK a : a = Delivered(i, fate, d)[Len(messages)]
  OBVIOUS
<1>3. a \in Rounds(M)
  BY <1>1, <1>2, DeliveredSound DEF GossipInv
<1>4. Sound(a.nodes, M) /\ a.delayed \in Seq(Messages(M)) /\ a.again \in Seq(Messages(M))
  BY <1>3 DEF Rounds
<1>5. /\ messages' = a.delayed \o a.again
      /\ nodes' = IF RequeueIsDue THEN Requeued(a.nodes) ELSE a.nodes
      /\ lost' = (~RequeueIsDue /\ (lost \/ LostInDelivery(i, fate)))
      /\ converged' = (hadMessages = "no" /\ VerifyConvergence(a.nodes))
      /\ round' = IF converged' \/ ~adversarial THEN 0
                  ELSE (round % RequeueInterval) + 1
      /\ hadMessages' = "none" /\ UNCHANGED <<adversarial, partitions, commits>>
  BY <1>2 DEF DeliverMessages
<1>6. Sound(nodes', M)
  BY <1>4, <1>5, RequeueSound
<1>7. M = Made(nodes')
  BY <1>6 DEF Sound
<1>8. messages' \in Seq(Messages(M))
  BY <1>4, <1>5
<1>9. round' \in 0..RequeueInterval
  <2>1. round \in 0..RequeueInterval /\ RequeueInterval \in Nat \ {0}
    BY BoundAssumption DEF GossipInv
  <2>2. (round % RequeueInterval) + 1 \in 0..RequeueInterval
    BY <2>1
  <2> QED
    BY <1>5, <2>1, <2>2
<1>10. converged' \in BOOLEAN /\ lost' \in BOOLEAN
  BY <1>5
<1>11. Cardinality(Made(nodes')) <= commits'
  BY <1>1, <1>5, <1>7 DEF GossipInv
<1> QED
  BY <1>5, <1>6, <1>7, <1>8, <1>9, <1>10, <1>11 DEF GossipInv

-----------------------------------------------------------------------------
(* Every step                                                               *)

LEMMA GossipBegins == Init => GossipInv
<1> SUFFICES ASSUME Init PROVE GossipInv
  OBVIOUS
<1>1. NewNode \in Node /\ Image(NewNode.all) = {} /\ \A m \in NodeId : Time(NewNode.clock, m) = 0
  <2>1. EmptyClock \in Clocks /\ EmptyState \in States /\ <<>> \in Seq(Update)
    BY ClocksGoOn, StatesAreStates
  <2>2. NewNode \in Node
    BY <2>1 DEF NewNode, Node, EmptyState
  <2>3. Image(NewNode.all) = {}
    BY DEF NewNode, Image
  <2> QED
    BY <2>2, <2>3 DEF NewNode, EmptyClock, Time
<1>2. ASSUME NEW n \in NodeId PROVE NodeOwn(n, NewNode)
  <2>1. OwnIds(n, NewNode) = {} /\ NewNode.applied = {} /\ DOMAIN NewNode.all = {}
        /\ Image(NewNode.outbox) = {}
    BY DEF OwnIds, NewNode, Image
  <2>2. IsFiniteSet(OwnIds(n, NewNode)) /\ Cardinality(OwnIds(n, NewNode)) = 0
    BY <2>1, FS_EmptySet
  <2> QED
    BY <1>1, <2>1, <2>2 DEF NodeOwn
<1>3. nodes = [n \in NodeId |-> NewNode]
  BY DEF Init
<1>4. Made(nodes) = {}
  BY <1>1, <1>3 DEF Made
<1>5. HeardOf(nodes, {}) /\ Causal({}) /\ GivenMessage({})
  BY <1>1, <1>3, FS_EmptySet, BoundAssumption DEF HeardOf, Causal, GivenMessage
<1>6. Sound(nodes, Made(nodes)) /\ Cardinality(Made(nodes)) = 0
  <2>1. \A k : OperationsOn({}, k) = {}
    BY DEF OperationsOn
  <2>2. \A k : DOMAIN OpsOf({}, k) = {}
    BY <2>1 DEF OpsOf
  <2>3. NewNode.state = EmptyState /\ DOMAIN EmptyState = {}
    BY DEF NewNode, EmptyState
  <2>4. AddsUpNode(NewNode)
    BY <1>1, <2>2, <2>3 DEF AddsUpNode, MergesTo, KeyHolds
  <2> QED
    BY <1>2, <1>3, <1>4, <1>5, <2>4, FS_EmptySet DEF Sound
<1>7. messages \in Seq(Messages(Made(nodes)))
  BY DEF Init
<1>8. 0 \in 0..RequeueInterval /\ 0 \in 0..MaxCommits /\ 0 \in 0..MaxEvents
  BY BoundAssumption
<1>9. partitions = {} /\ round = 0 /\ converged = FALSE /\ lost = FALSE
      /\ hadMessages = "none" /\ commits = 0 /\ events = 0
  BY DEF Init
<1>10. partitions \subseteq SUBSET NodeId /\ converged \in BOOLEAN /\ lost \in BOOLEAN
       /\ hadMessages \in {"none", "yes", "no"}
  BY <1>9
<1>11. round \in 0..RequeueInterval /\ commits \in 0..MaxCommits /\ events \in 0..MaxEvents
  BY <1>8, <1>9
<1>12. Cardinality(Made(nodes)) <= commits
  BY <1>6, <1>9
<1>13. adversarial \in BOOLEAN
  BY DEF Init
<1> QED
  BY <1>6, <1>7, <1>10, <1>11, <1>12, <1>13 DEF GossipInv

LEMMA SeqStays ==
  ASSUME NEW S, NEW T, S \subseteq T
  PROVE  Seq(S) \subseteq Seq(T)
OBVIOUS

LEMMA CommitOwn ==
  ASSUME FloatsRound, GossipInv, NEW n \in NodeId, NEW tx \in Transactions, Commit(n, tx)
  PROVE  GossipInv'
<1> DEFINE r == CommitLocal(tx, n, nodes[n].clock)
<1>1. PICK u : u = [operations |-> tx, clock |-> Tick(nodes[n].clock, n), origin |-> <<n>>]
  OBVIOUS
<1>2. /\ r.ok /\ commits < MaxCommits /\ commits' = commits + 1 /\ converged' = FALSE
      /\ nodes' = [nodes EXCEPT ![n] = Track(ApplyUpdate(@, r.update), r.update)]
      /\ round' = 0 /\ UNCHANGED <<adversarial, messages, partitions, hadMessages, lost, events>>
  BY DEF Commit
<1>3. r.update = u
  BY <1>1, <1>2 DEF CommitLocal, CanCommitLocally, Error, Ok
<1> HIDE DEF r
<1>4. PICK M : M = Made(nodes) /\ Sound(nodes, M)
  BY DEF GossipInv
<1>5. u \in Update /\ u.origin = <<n>> /\ u.clock = Tick(nodes[n].clock, n)
  <2>1. nodes[n].clock \in Clocks
    BY <1>4, SoundSays DEF Node
  <2>2. Tick(nodes[n].clock, n) \in Clocks
    BY <2>1, ClocksGoOn
  <2>3. tx \in Seq(AlgebraicOperation)
    BY TransactionAssumption
  <2> QED
    BY <1>1, <2>2, <2>3 DEF Update
<1>10. GivenMessage(M \cup {u}) /\ Cardinality(M \cup {u}) <= commits + 1
  <2>1. GivenMessage(M) /\ Cardinality(M) <= commits /\ commits \in Nat
    BY <1>4 DEF GossipInv, Sound
  <2>2. IsFiniteSet(M \cup {u}) /\ Cardinality(M) \in Nat
        /\ Cardinality(M \cup {u}) = IF u \in M THEN Cardinality(M) ELSE Cardinality(M) + 1
    BY <2>1, FS_AddElement, FS_CardinalityType DEF GivenMessage
  <2>3. \A w \in M \cup {u} : w.operations \in Transactions
    BY <1>1, <2>1 DEF GivenMessage
  <2> QED
    BY <1>2, <2>1, <2>2, <2>3, BoundAssumption DEF GivenMessage
<1>6. Sound(nodes', M \cup {u})
  BY <1>2, <1>3, <1>4, <1>5, <1>10, CommitSound
<1>7. Made(nodes') = M \cup {u}
  BY <1>6 DEF Sound
<1>8. messages' \in Seq(Messages(M \cup {u}))
  <2>1. messages \in Seq(Messages(M)) /\ Messages(M) \subseteq Messages(M \cup {u})
    BY <1>4 DEF GossipInv, Messages
  <2>2. PICK S, T : S = Messages(M) /\ T = Messages(M \cup {u})
    OBVIOUS
  <2>3. Seq(S) \subseteq Seq(T)
    BY <2>1, <2>2, SeqStays
  <2> QED
    BY <1>2, <2>1, <2>2, <2>3
<1>9. commits' \in 0..MaxCommits /\ round' \in 0..RequeueInterval
  BY <1>2, BoundAssumption DEF GossipInv
<1> QED
  BY <1>2, <1>6, <1>7, <1>8, <1>9, <1>10 DEF GossipInv

LEMMA BroadcastOwn ==
  ASSUME GossipInv, BroadcastAll
  PROVE  GossipInv'
<1>1. PICK M : M = Made(nodes) /\ Sound(nodes, M) /\ messages \in Seq(Messages(M))
  BY DEF GossipInv
<1>2. /\ hadMessages' \in {"yes", "no"} /\ lost' = (lost \/ LostInBroadcast)
      /\ messages' = messages \o FlattenSeq([n \in NodeId |-> Outgoing(n)])
      /\ nodes' = [n \in NodeId |-> [nodes[n] EXCEPT !.outbox = <<>>]]
      /\ UNCHANGED <<adversarial, partitions, round, converged, commits, events>>
  BY DEF BroadcastAll
<1>3. Sound(nodes', M)
  <2>1. nodes' = [n \in NodeId |-> nodes'[n]]
    BY <1>2
  <2>2. ASSUME NEW n \in NodeId
        PROVE  /\ nodes'[n] = [nodes[n] EXCEPT !.outbox = nodes'[n].outbox]
               /\ nodes'[n].outbox \in Seq(Update)
               /\ Image(nodes'[n].outbox) \subseteq Image(nodes[n].all)
    <3>1. nodes[n] \in Node
      BY <1>1, SoundSays
    <3>2. nodes'[n] = [nodes[n] EXCEPT !.outbox = <<>>]
      BY <1>2
    <3>3. nodes'[n].outbox = <<>>
      BY <3>1, <3>2 DEF Node
    <3>4. <<>> \in Seq(Update) /\ Image(<<>>) = {}
      BY DEF Image
    <3> QED
      BY <3>2, <3>3, <3>4
  <2> QED
    BY <1>1, <2>1, <2>2, OutboxSound
<1>4. Made(nodes') = M
  BY <1>3 DEF Sound
<1>5. messages' \in Seq(Messages(M))
  <2>1. FlattenSeq([n \in NodeId |-> Outgoing(n)]) \in Seq(Messages(M))
    BY <1>1, BroadcastTyped
  <2> QED
    BY <1>1, <1>2, <2>1
<1>6. Cardinality(Made(nodes')) <= commits'
  BY <1>1, <1>2, <1>4 DEF GossipInv
<1> QED
  BY <1>2, <1>3, <1>4, <1>5, <1>6 DEF GossipInv

LEMMA NextGossip ==
  ASSUME FloatsRound, GossipInv, [Next]_vars
  PROVE  GossipInv'
<1>1. ASSUME NEW n \in NodeId, NEW tx \in Transactions, Commit(n, tx) PROVE GossipInv'
  BY <1>1, CommitOwn
<1>2. ASSUME BroadcastAll PROVE GossipInv'
  BY <1>2, BroadcastOwn
<1>3. ASSUME Deliver PROVE GossipInv'
  <2>1. "arrives" \in Fates /\ 0 \in 0..MaxDelay
    BY BoundAssumption DEF Fates
  <2>2. DeliverMessages(0, "arrives", 0) /\ events' \in 0..MaxEvents
    BY <1>3 DEF Deliver, GossipInv
  <2> QED
    BY <2>1, <2>2, DeliverOwn
<1>4. ASSUME DeliverWithFault PROVE GossipInv'
  <2>1. PICK i \in DOMAIN messages, fate \in Fates \ {"arrives"}, d \in 1..MaxDelay :
          DeliverMessages(i, fate, d)
    BY <1>4 DEF DeliverWithFault
  <2>2. d \in 0..MaxDelay /\ events' \in 0..MaxEvents
    BY <1>4, BoundAssumption DEF DeliverWithFault, GossipInv
  <2> QED
    BY <2>1, <2>2, DeliverOwn
<1>5. ASSUME NEW m \in NodeId, NEW n \in NodeId, Partition(m, n) PROVE GossipInv'
  <2>1. /\ partitions' = partitions \cup {{m, n}} /\ events < MaxEvents /\ events' = events + 1
        /\ round' = 0
        /\ UNCHANGED <<adversarial, nodes, messages, hadMessages, converged, lost, commits>>
    BY <1>5 DEF Partition
  <2>2. /\ partitions' \subseteq SUBSET NodeId /\ events' \in 0..MaxEvents
        /\ round' \in 0..RequeueInterval
    BY <2>1, BoundAssumption DEF GossipInv
  <2> QED
    BY <2>1, <2>2 DEF GossipInv
<1>6. ASSUME HealPartitions PROVE GossipInv'
  BY <1>6, BoundAssumption DEF HealPartitions, GossipInv
<1>7. ASSUME RequeueAllUpdates PROVE GossipInv'
  <2>1. /\ nodes' = Requeued(nodes) /\ events < MaxEvents /\ events' = events + 1
        /\ lost' = FALSE /\ round' = 0
        /\ UNCHANGED <<adversarial, messages, partitions, hadMessages, converged, commits>>
    BY <1>7 DEF RequeueAllUpdates
  <2>2. PICK M : M = Made(nodes) /\ Sound(nodes, M)
    BY DEF GossipInv
  <2>3. Sound(nodes', M) /\ events' \in 0..MaxEvents /\ round' \in 0..RequeueInterval
    BY <2>1, <2>2, RequeueSound, BoundAssumption DEF GossipInv
  <2>4. Made(nodes') = M
    BY <2>3 DEF Sound
  <2> QED
    BY <2>1, <2>2, <2>3, <2>4 DEF GossipInv
<1>8. CASE UNCHANGED vars
  BY <1>8 DEF vars, GossipInv
<1> QED
  BY <1>1, <1>2, <1>3, <1>4, <1>5, <1>6, <1>7, <1>8 DEF Next

\* No round, whatever it loses, repeats or delays, and no requeue makes a node
\* know what it was not told (SimulatedCluster).
THEOREM GossipIsSound ==
  ASSUME FloatsRound
  PROVE  Spec => []GossipInv
<1>1. GossipInv /\ [Next]_vars => GossipInv'
  BY NextGossip
<1> QED
  BY <1>1, GossipBegins, PTL DEF Spec

-----------------------------------------------------------------------------
(* What the clocks tell                                                     *)

\* An update whose commits a clock of the cluster counts comes before that of
\* the clock, or is it.
LEMMA CountedIsSeen ==
  ASSUME NEW ns, NEW M, Sound(ns, M), NEW u \in M, NEW w \in M, NEW m \in NodeId,
         u.origin = <<m>>, Time(u.clock, m) <= Time(w.clock, m)
  PROVE  u = w \/ CompareUpdates(u, w) = "Before"
<1>1. u \in Update /\ w \in Update /\ IsClock(u.clock) /\ IsClock(w.clock)
  BY SoundSays
<1>2. Covers(w.clock, u.clock) /\ (u.clock = w.clock => u = w)
  BY DEF Sound, Causal, Knows
<1>3. CASE Covers(u.clock, w.clock)
  <2>1. u.clock \in Clocks /\ w.clock \in Clocks
    BY <1>1 DEF Update
  <2>2. u.clock = w.clock
    BY <1>2, <1>3, <2>1, EqualClocks
  <2> QED
    BY <1>2, <2>2
<1>4. CASE ~Covers(u.clock, w.clock)
  BY <1>1, <1>2, <1>4, CompareCovers DEF CompareUpdates
<1> QED
  BY <1>3, <1>4

\* Before the update that n made at place j comes exactly what n had then.
LEMMA PastIsWhatCame ==
  ASSUME NEW ns, NEW M, Sound(ns, M), NEW n \in NodeId, NEW j \in DOMAIN ns[n].all,
         ns[n].all[j].origin = <<n>>, NEW u \in M
  PROVE  CompareUpdates(u, ns[n].all[j]) = "Before"
           <=> \E i \in 1..(j - 1) : u = ns[n].all[i] \/ CompareUpdates(u, ns[n].all[i]) = "Before"
<1>1. PICK all \in Seq(Update) : all = ns[n].all
  BY SoundSays DEF Node
<1>2. PICK v : v = all[j]
  OBVIOUS
<1>3. Past(n, all, j) /\ v.origin = <<n>>
  BY <1>1, <1>2 DEF Sound, NodeOwn
<1>4. /\ v \in M /\ \A i \in 1..(j - 1) : all[i] \in M
      /\ \A w \in M : w \in Update /\ IsClock(w.clock)
  <2>1. Image(all) \subseteq M
    BY <1>1, SoundSays
  <2>2. j \in DOMAIN all /\ \A i \in 1..(j - 1) : i \in DOMAIN all
    BY <1>1
  <2> QED
    BY <1>2, <2>1, <2>2, SoundSays DEF Image
<1>5. \A w \in M, m \in NodeId : Time(w.clock, m) \in Nat
  BY <1>4, TimeType
<1>6. ASSUME NEW i \in 1..(j - 1), u = all[i] \/ CompareUpdates(u, all[i]) = "Before"
      PROVE  CompareUpdates(u, v) = "Before"
  <2>1. PICK w \in M : w = all[i]
    BY <1>4
  <2>2. IsClock(u.clock) /\ IsClock(v.clock) /\ IsClock(w.clock)
    BY <1>4, <2>1
  <2>3. Covers(v.clock, w.clock) /\ Time(w.clock, n) < Time(v.clock, n)
    BY <1>2, <1>3, <2>1 DEF Past
  <2>4. Covers(w.clock, u.clock)
    <3>1. CASE u = w
      BY <2>2, <3>1, CoversBoth
    <3>2. CASE CompareUpdates(u, w) = "Before"
      BY <2>2, <3>2, CompareCovers DEF CompareUpdates
    <3> QED
      BY <1>6, <2>1, <3>1, <3>2
  <2>5. Covers(v.clock, u.clock)
    BY <2>2, <2>3, <2>4, CoversTransitive
  <2>6. ~Covers(u.clock, v.clock)
    <3>1. Time(u.clock, n) <= Time(w.clock, n)
      BY <2>4 DEF Covers
    <3>2. ~(Time(v.clock, n) <= Time(u.clock, n))
      BY <1>4, <1>5, <2>1, <2>3, <3>1
    <3> QED
      BY <3>2 DEF Covers
  <2> QED
    BY <2>2, <2>5, <2>6, CompareCovers DEF CompareUpdates
<1>7. ASSUME CompareUpdates(u, v) = "Before"
      PROVE  \E i \in 1..(j - 1) : u = all[i] \/ CompareUpdates(u, all[i]) = "Before"
  <2>1. Covers(v.clock, u.clock) /\ ~Covers(u.clock, v.clock)
    BY <1>4, <1>7, CompareCovers DEF CompareUpdates
  <2>2. PICK m \in NodeId : u.origin = <<m>>
    BY <1>4 DEF Update
  <2>3. Time(u.clock, m) > 0 /\ Time(u.clock, m) <= Time(v.clock, m)
    BY <2>1, <2>2 DEF Sound, Causal, Covers
  <2>4. PICK i \in 1..(j - 1) : Time(all[i].clock, m) >= Time(u.clock, m)
    <3>1. CASE m # n
      <4>1. Time(v.clock, m) > 0
        BY <1>4, <1>5, <2>3
      <4>2. PICK i \in 1..(j - 1) : Time(all[i].clock, m) >= Time(v.clock, m)
        BY <1>2, <1>3, <1>4, <1>5, <3>1, <4>1 DEF Past
      <4> QED
        BY <1>4, <1>5, <2>3, <4>2
    <3>2. CASE m = n
      <4>1. Knows(u.clock, v)
        BY <1>4 DEF Sound, Causal
      <4>2. ~(Time(v.clock, n) <= Time(u.clock, n))
        BY <1>3, <2>1, <4>1 DEF Knows
      <4>3. Time(v.clock, m) - 1 >= Time(u.clock, m) /\ Time(v.clock, m) - 1 > 0
        BY <1>4, <1>5, <2>3, <3>2, <4>2
      <4>4. PICK i \in 1..(j - 1) : Time(all[i].clock, m) >= Time(v.clock, m) - 1
        BY <1>2, <1>3, <3>2, <4>3 DEF Past
      <4> QED
        BY <1>4, <1>5, <4>3, <4>4
    <3> QED
      BY <3>1, <3>2
  <2>5. all[i] \in M /\ Time(u.clock, m) <= Time(all[i].clock, m)
    BY <1>4, <1>5, <2>4
  <2> QED
    BY <2>2, <2>5, CountedIsSeen
<1> QED
  BY <1>1, <1>2, <1>6, <1>7

LEMMA GossipTypes ==
  ASSUME GossipInv
  PROVE  TypeOK
<1>1. PICK M : M = Made(nodes) /\ Sound(nodes, M) /\ messages \in Seq(Messages(M))
  BY DEF GossipInv
<1>2. \A m \in NodeId : <<m>> \in Seq(NodeId)
  OBVIOUS
<1>3. ASSUME NEW u \in Update PROVE IsUpdate(u)
  <2>1. /\ u = [operations |-> u.operations, clock |-> u.clock, origin |-> u.origin]
        /\ u.operations \in Seq(AlgebraicOperation) /\ u.clock \in Clocks
    BY DEF Update
  <2>2. u.origin \in Seq(NodeId)
    BY <1>2 DEF Update
  <2> QED
    BY <2>1, <2>2, ClocksAreClocks DEF IsUpdate
<1>4. ASSUME NEW n \in NodeId
      PROVE  /\ IsClock(nodes[n].clock) /\ IsState(nodes[n].state)
             /\ \A i \in DOMAIN nodes[n].all : IsUpdate(nodes[n].all[i])
             /\ ToSet(nodes[n].outbox) \subseteq ToSet(nodes[n].all)
  <2>1. nodes[n] \in Node /\ IsClock(nodes[n].clock) /\ NodeOwn(n, nodes[n])
    BY <1>1, SoundSays DEF Sound
  <2>2. IsState(nodes[n].state)
    <3>1. nodes[n].state \in States
      BY <2>1 DEF Node
    <3> QED
      BY <3>1, StatesAreStates
  <2>3. \A i \in DOMAIN nodes[n].all : nodes[n].all[i] \in Update
    <3>1. nodes[n].all \in Seq(Update)
      BY <2>1 DEF Node
    <3> QED
      BY <3>1
  <2>4. ToSet(nodes[n].outbox) \subseteq ToSet(nodes[n].all)
    BY <2>1 DEF NodeOwn, Image, ToSet
  <2> QED
    BY <1>3, <2>1, <2>2, <2>3, <2>4
<1>5. ASSUME NEW i \in DOMAIN messages PROVE IsMessage(messages[i])
  <2>1. PICK m \in Messages(M) : m = messages[i]
    BY <1>1
  <2>2. m.from \in NodeId /\ m.to \in NodeId \ {m.from} /\ m.delay \in 0..MaxDelay /\ m.update \in M
    BY DEF Messages
  <2>3. m.update \in Update
    BY <1>1, <2>2, SoundSays
  <2> QED
    BY <1>3, <2>1, <2>2, <2>3 DEF IsMessage
<1>6. commits <= MaxCommits /\ events <= MaxEvents
  BY BoundAssumption DEF GossipInv
<1> QED
  BY <1>4, <1>5, <1>6 DEF TypeOK, GossipInv

LEMMA GossipTells ==
  ASSUME GossipInv
  PROVE  ClusterInv
<1>1. PICK M : M = Made(nodes) /\ Sound(nodes, M)
  BY DEF GossipInv
<1>2. ClockBound
  BY <1>1 DEF Sound, HeardOf, ClockBound
<1>3. IdsTellCommitsApart
  <2>1. ASSUME NEW n \in NodeId PROVE Cardinality(OwnIds(n, nodes[n])) = Time(nodes[n].clock, n)
    BY <1>1 DEF Sound, NodeOwn
  <2> QED
    BY <2>1 DEF OwnIds, IdsTellCommitsApart
<1>4. CausalOrderIsExact
  <2>1. Updates = M
    BY <1>1 DEF Updates, Made, Image, ToSet
  <2>2. ASSUME NEW n \in NodeId, NEW j \in DOMAIN nodes[n].all, nodes[n].all[j].origin = <<n>>,
               NEW u \in Updates
        PROVE  CompareUpdates(u, nodes[n].all[j]) = "Before"
                 <=> \E w \in {nodes[n].all[i] : i \in 1..(j - 1)} :
                       u = w \/ CompareUpdates(u, w) = "Before"
    BY <1>1, <2>1, <2>2, PastIsWhatCame
  <2> QED
    BY <2>2 DEF CausalOrderIsExact
<1> QED
  BY <1>2, <1>3, <1>4, GossipTypes DEF ClusterInv

\* The clocks tell the truth: each commit has an identifier of its own, nobody
\* counts more of them than were made, and an update comes before a commit in
\* the order of the clocks exactly when its node had it, or something after it,
\* when it committed (vector_clock.rs:201, simulation.rs:259 and 286).
THEOREM ClocksTellCausality ==
  ASSUME FloatsRound
  PROVE  Spec => []ClusterInv
<1>1. GossipInv => ClusterInv
  BY GossipTells
<1> QED
  BY <1>1, GossipIsSound, PTL

LEMMA GossipAddsUp ==
  ASSUME GossipInv, TransactionsFit
  PROVE  StateIsMergeOfUpdates
<1> SUFFICES ASSUME NEW n \in NodeId, NEW k \in Keys
             PROVE  LET ops == OperationsOn(ToSet(nodes[n].all), k)
                        s == nodes[n].state
                    IN /\ k \in DOMAIN s <=> ops # {}
                       /\ k \in DOMAIN s =>
                            /\ \A o \in ops : o[1].operations[o[2]].op = s[k].op
                            /\ s[k].value =
                                 Combined(s[k].op, [o \in ops |-> o[1].operations[o[2]].value[2]])
  BY DEF StateIsMergeOfUpdates
<1>1. PICK us, s : us = Image(nodes[n].all) /\ s = nodes[n].state
  OBVIOUS
<1>2. us = ToSet(nodes[n].all)
  BY <1>1 DEF Image, ToSet
<1>3. PICK h, ops : h = OpsOf(us, k) /\ ops = OperationsOn(us, k)
  OBVIOUS
<1>4. KeyHolds(s, k, h)
  BY <1>1, <1>3 DEF GossipInv, Sound, AddsUpNode, MergesTo
<1>5. DOMAIN h = ops /\ \A o \in ops : h[o] = o[1].operations[o[2]]
  BY <1>3 DEF OpsOf
<1>6. ValuesOf(h) = [o \in ops |-> o[1].operations[o[2]].value[2]]
  BY <1>5 DEF ValuesOf
<1>7. k \in DOMAIN s => s[k].value = Combined(s[k].op, ValuesOf(h))
  BY <1>4, ComesTo DEF KeyHolds
<1> QED
  BY <1>1, <1>2, <1>3, <1>4, <1>5, <1>6, <1>7 DEF KeyHolds

\* Whatever the network loses, repeats, delays or takes by detours, a node's
\* value of a key is the sum, maximum or union of the updates it has, each
\* counted once (simulation.rs:239 and 263).
THEOREM StateAddsUp ==
  ASSUME FloatsRound, TransactionsFit
  PROVE  Spec => []StateIsMergeOfUpdates
<1>1. GossipInv => StateIsMergeOfUpdates
  BY GossipAddsUp
<1> QED
  BY <1>1, GossipIsSound, PTL

\* Identifiers tell updates apart, so nodes that list the same have the same.
LEMMA SameUpdates ==
  ASSUME NEW ns, NEW M, Sound(ns, M), NEW m \in NodeId, NEW n \in NodeId,
         ns[m].applied = ns[n].applied
  PROVE  Image(ns[m].all) \subseteq Image(ns[n].all)
<1>1. /\ ns[m].applied = {UpdateId(u) : u \in Image(ns[m].all)}
      /\ ns[n].applied = {UpdateId(u) : u \in Image(ns[n].all)}
      /\ Image(ns[m].all) \subseteq M /\ Image(ns[n].all) \subseteq M
  BY SoundSays DEF Sound, NodeOwn
<1>2. ASSUME NEW u \in Image(ns[m].all) PROVE u \in Image(ns[n].all)
  <2>1. PICK w \in Image(ns[n].all) : UpdateId(w) = UpdateId(u)
    <3>1. PICK S, T : S = Image(ns[m].all) /\ T = Image(ns[n].all)
      OBVIOUS
    <3>2. {UpdateId(w) : w \in S} = {UpdateId(w) : w \in T} /\ u \in S
      BY <1>1, <3>1
    <3>3. UpdateId(u) \in {UpdateId(w) : w \in T}
      BY <3>2
    <3>4. PICK w \in T : UpdateId(w) = UpdateId(u)
      BY <3>3
    <3> QED
      BY <3>1, <3>4
  <2>2. w.clock = u.clock
    BY <2>1 DEF UpdateId
  <2>3. w = u
    BY <1>1, <2>2 DEF Sound, Causal
  <2> QED
    BY <2>1, <2>3
<1> QED
  BY <1>2

\* Operations on a key come to one value, if it has one.
LEMMA OneStateOfKey ==
  ASSUME NEW s \in States, NEW z \in States, NEW k, NEW h, KeyHolds(s, k, h), KeyHolds(z, k, h)
  PROVE  (k \in DOMAIN s <=> k \in DOMAIN z) /\ (k \in DOMAIN s => s[k] = z[k])
<1>1. k \in DOMAIN s <=> k \in DOMAIN z
  BY DEF KeyHolds
<1>2. ASSUME k \in DOMAIN s PROVE s[k] = z[k]
  <2>1. PICK x : x \in DOMAIN h /\ h[x].op = s[k].op /\ h[x].op = z[k].op
    BY <1>1, <1>2 DEF KeyHolds
  <2>2. s[k].value = Combined(s[k].op, ValuesOf(h)) /\ z[k].value = Combined(z[k].op, ValuesOf(h))
    BY <1>1, <1>2, ComesTo DEF KeyHolds
  <2>3. PICK p \in [op : OpType, value : AlgebraicValue], q \in [op : OpType, value : AlgebraicValue] :
          p = s[k] /\ q = z[k]
    BY <1>1, <1>2 DEF States
  <2>4. p.op = q.op /\ p.value = q.value
    BY <2>1, <2>2, <2>3
  <2>5. p = q
    BY <2>4
  <2> QED
    BY <2>3, <2>5
<1> QED
  BY <1>1, <1>2

LEMMA GossipConverges ==
  ASSUME GossipInv, TransactionsFit
  PROVE  SameUpdatesSameState
<1> SUFFICES ASSUME NEW m \in NodeId, NEW n \in NodeId, nodes[m].applied = nodes[n].applied
             PROVE  nodes[m].state = nodes[n].state
  BY DEF SameUpdatesSameState
<1>1. PICK M : Sound(nodes, M)
  BY DEF GossipInv
<1>2. PICK us : us = Image(nodes[m].all) /\ us = Image(nodes[n].all)
  <2>1. PICK ns : ns = nodes
    OBVIOUS
  <2>2. Sound(ns, M) /\ ns[m].applied = ns[n].applied
    BY <1>1, <2>1
  <2>3. /\ Image(ns[m].all) \subseteq Image(ns[n].all)
        /\ Image(ns[n].all) \subseteq Image(ns[m].all)
    BY <2>2, SameUpdates
  <2>4. Image(ns[m].all) = Image(ns[n].all)
    BY <2>3
  <2> QED
    BY <2>1, <2>4
<1>3. PICK s \in States, z \in States : s = nodes[m].state /\ z = nodes[n].state
  BY <1>1, SoundSays DEF Node
<1>4. MergesTo(s, us) /\ MergesTo(z, us)
  BY <1>1, <1>2, <1>3 DEF Sound, AddsUpNode
<1>5. ASSUME NEW k \in Keys
      PROVE  (k \in DOMAIN s <=> k \in DOMAIN z) /\ (k \in DOMAIN s => s[k] = z[k])
  <2>1. PICK h : h = OpsOf(us, k)
    OBVIOUS
  <2>2. KeyHolds(s, k, h) /\ KeyHolds(z, k, h)
    BY <1>4, <2>1 DEF MergesTo
  <2> QED
    BY <2>2, OneStateOfKey
<1>6. /\ s = [k \in DOMAIN s |-> s[k]] /\ DOMAIN s \subseteq Keys
      /\ z = [k \in DOMAIN z |-> z[k]] /\ DOMAIN z \subseteq Keys
  BY <1>3 DEF States
<1> QED
  BY <1>3, <1>5, <1>6

\* The convergence theorem that local_commit.rs:18 states, under the condition
\* it leaves unsaid, that each key is used in one way: nodes that applied the
\* same updates hold the same state, whatever order they came in.
THEOREM Convergence ==
  ASSUME FloatsRound, TransactionsFit
  PROVE  Spec => []SameUpdatesSameState
<1>1. GossipInv => SameUpdatesSameState
  BY GossipConverges
<1> QED
  BY <1>1, GossipIsSound, PTL
=============================================================================
