------------------------ MODULE CoordinationFree_proofs ------------------------
(***************************************************************************)
(* Proofs about a coordination-free manager, for any threads, keys, values *)
(* and transactions.                                                       *)
(*                                                                         *)
(* The escrow is a part of its own: every step of the manager is one of    *)
(* its steps or leaves it alone, and whatever sequence of calls follows, a *)
(* node consumes no more than it was given.                                *)
(*                                                                         *)
(* The rest follows from SharedInv: an update of this node has a tick that *)
(* no other has, from the lock of the clock on, and is at one stage at a   *)
(* time, in the hands of one thread, undecided in the buffer, applied by   *)
(* the thread that will list it, or listed.                                *)
(***************************************************************************)
EXTENDS CoordinationFree, Algorithms_proofs, SequenceTheorems

-----------------------------------------------------------------------------
(* escrow.rs *)

\* The records of the resources, and what limits a quota.
Resource ==
  [available : Int, allocated : Int, total : Int, consumed : Nat,
   replenished : Int, local : Nat, coordination : Nat]

EscrowInv ==
  /\ escrow = [r \in DOMAIN escrow |-> escrow[r]] /\ DOMAIN escrow \subseteq Resources
  /\ \A r \in DOMAIN escrow : escrow[r] \in Resource /\ escrow[r].allocated >= 0
  /\ granted \in [Resources -> Int]
  /\ NeverOverspends

\* A quota that is computed is in the bounds.
LEMMA QuotaBounds == \A quota \in OptimalQuotas : quota \in Nat
BY EscrowAssumption DEF OptimalQuotas, OptimalQuota

\* A refusal is counted, and changes nothing else.
LEMMA Refused ==
  ASSUME NEW x \in Resource, NEW y, y = [x EXCEPT !.coordination = @ + 1]
  PROVE  /\ y \in Resource /\ y.allocated = x.allocated
         /\ y.available = x.available /\ y.consumed = x.consumed
BY DEF Resource

\* Every operation of the escrow preserves the invariant.
LEMMA EscrowStep ==
  ASSUME Amounts \subseteq Nat, EscrowInv, [EscrowNext]_escrowVars
  PROVE  EscrowInv'
<1>1. ASSUME NEW r \in Resources, NEW total \in Int, NEW quota \in Nat, Register(r, total, quota)
      PROVE  EscrowInv'
  <2>1. /\ r \notin DOMAIN escrow /\ DOMAIN escrow' = DOMAIN escrow \cup {r}
        /\ escrow'[r] = NewResource(total, quota)
        /\ \A s \in DOMAIN escrow : escrow'[s] = escrow[s]
        /\ escrow' = [s \in DOMAIN escrow' |-> escrow'[s]]
        /\ granted' = [granted EXCEPT ![r] = quota]
    BY <1>1 DEF Register
  <2>2. /\ escrow'[r] \in Resource /\ escrow'[r].allocated = quota /\ escrow'[r].available = quota
        /\ escrow'[r].consumed = 0
    BY <2>1 DEF NewResource, Resource
  <2> QED
    BY <2>1, <2>2 DEF EscrowInv, NeverOverspends, Resource
<1>2. ASSUME NEW r \in Resources, NEW amount \in Nat, TryConsume(r, amount)
      PROVE  EscrowInv'
  <2>1. /\ r \in DOMAIN escrow /\ DOMAIN escrow' = DOMAIN escrow /\ granted' = granted
        /\ \A s \in DOMAIN escrow \ {r} : escrow'[s] = escrow[s]
        /\ escrow' = [s \in DOMAIN escrow' |-> escrow'[s]]
        /\ escrow[r] \in Resource
    BY <1>2 DEF TryConsume, EscrowInv
  <2>2. CASE escrow' = [escrow EXCEPT ![r].coordination = @ + 1]
    <3>1. /\ escrow'[r] \in Resource /\ escrow'[r].allocated = escrow[r].allocated
          /\ escrow'[r].available = escrow[r].available
          /\ escrow'[r].consumed = escrow[r].consumed
      <4>1. escrow'[r] = [escrow[r] EXCEPT !.coordination = @ + 1]
        BY <2>1, <2>2
      <4> QED
        BY <2>1, <4>1, Refused
    <3> QED
      BY <2>1, <3>1 DEF EscrowInv, NeverOverspends, Resource
  <2>3. CASE /\ escrow[r].available >= amount
             /\ escrow' = [escrow EXCEPT ![r].available = @ - amount, ![r].consumed = @ + amount,
                                         ![r].local = @ + 1]
    <3>1. /\ escrow'[r] \in Resource /\ escrow'[r].allocated = escrow[r].allocated
          /\ escrow'[r].available = escrow[r].available - amount
          /\ escrow'[r].consumed = escrow[r].consumed + amount
      <4>1. /\ escrow[r].available - amount \in Int /\ escrow[r].consumed + amount \in Nat
            /\ escrow[r].local + 1 \in Nat
        BY <2>1 DEF Resource
      <4> QED
        BY <2>1, <2>3, <4>1 DEF Resource
    <3>2. /\ escrow'[r].allocated >= 0 /\ escrow'[r].available >= 0
          /\ escrow'[r].consumed + escrow'[r].available <= granted'[r]
      BY <2>1, <2>3, <3>1 DEF EscrowInv, NeverOverspends, Resource
    <3> QED
      BY <2>1, <3>1, <3>2 DEF EscrowInv, NeverOverspends
  <2> QED
    BY <1>2, <2>2, <2>3 DEF TryConsume
<1>3. ASSUME NEW r \in Resources, NEW amount \in Nat, Replenish(r, amount)
      PROVE  EscrowInv'
  <2> DEFINE left == IF amount <= escrow[r].allocated THEN amount ELSE escrow[r].allocated
  <2>1. /\ r \in DOMAIN escrow /\ DOMAIN escrow' = DOMAIN escrow
        /\ granted' = [granted EXCEPT ![r] = @ + amount]
        /\ \A s \in DOMAIN escrow \ {r} : escrow'[s] = escrow[s]
        /\ escrow' = [s \in DOMAIN escrow' |-> escrow'[s]]
        /\ escrow'[r] = [escrow[r] EXCEPT !.available = left, !.replenished = @ + amount]
    BY <1>3 DEF Replenish, EscrowInv
  <2>2. left \in Nat /\ left <= amount
    BY <2>1 DEF EscrowInv, Resource
  <2>3. /\ escrow'[r] \in Resource /\ escrow'[r].allocated = escrow[r].allocated
        /\ escrow'[r].available = left /\ escrow'[r].consumed = escrow[r].consumed
        /\ escrow[r].consumed \in Nat /\ granted[r] \in Int
    <3>1. escrow[r] \in Resource /\ granted[r] \in Int /\ escrow[r].consumed \in Nat
      BY <2>1 DEF EscrowInv, Resource
    <3>2. left \in Int /\ escrow[r].replenished + amount \in Int
      BY <2>2, <3>1 DEF Resource
    <3> HIDE DEF left
    <3> QED
      BY <2>1, <3>1, <3>2 DEF Resource
  <2>4. escrow[r].consumed <= granted[r]
    BY <2>1 DEF EscrowInv, NeverOverspends, Resource
  <2> HIDE DEF left
  <2>5. escrow'[r].consumed + escrow'[r].available <= granted'[r] /\ escrow'[r].available >= 0
    BY <2>1, <2>2, <2>3, <2>4 DEF EscrowInv
  <2>6. escrow'[r].allocated >= 0 /\ granted' \in [Resources -> Int]
    BY <2>1, <2>3 DEF EscrowInv
  <2> QED
    BY <2>1, <2>3, <2>5, <2>6 DEF EscrowInv, NeverOverspends
<1>4. ASSUME ResizeQuotas PROVE EscrowInv'
  <2>1. PICK quota \in [DOMAIN escrow -> OptimalQuotas] :
          escrow' = [r \in DOMAIN escrow |-> [escrow[r] EXCEPT !.allocated = quota[r]]]
    BY <1>4 DEF ResizeQuotas
  <2>2. ASSUME NEW r \in DOMAIN escrow
        PROVE  /\ escrow'[r] \in Resource /\ escrow'[r].allocated >= 0
               /\ escrow'[r].available = escrow[r].available
               /\ escrow'[r].consumed = escrow[r].consumed
    BY <2>1, QuotaBounds DEF EscrowInv, Resource
  <2> QED
    BY <1>4, <2>1, <2>2 DEF ResizeQuotas, EscrowInv, NeverOverspends
<1>5. CASE UNCHANGED escrowVars
  BY <1>5 DEF escrowVars, EscrowInv, NeverOverspends
<1> QED
  BY <1>1, <1>2, <1>3, <1>4, <1>5, QuotaBounds DEF EscrowNext, RegisterAuto

LEMMA EscrowBegins == EscrowInit => EscrowInv
BY DEF EscrowInit, EscrowInv, NeverOverspends

\* The manager implements the escrow: it uses its operations and nothing else
\* (register_escrow_resource, consume_escrow, replenish_escrow).
THEOREM ManagerIsEscrow == Spec => EscrowSpec
<1>1. Init => EscrowInit
  BY DEF Init
<1>2. [Next]_vars => [EscrowNext]_escrowVars
  BY DEF Next, Step, TakeTick, Speculate, Apply, Push, BeginCommit, BeginSpeculation, BeginReceive,
     ConfirmSpeculative, RollbackSpeculative, UseEscrow, vars, escrowVars
<1> QED
  BY <1>1, <1>2, PTL DEF Spec, EscrowSpec

\* A node never consumes more of a resource than it was given, however calls
\* of its threads follow each other (try_consume, replenish, resize_quotas).
THEOREM QuotasHold ==
  ASSUME Amounts \subseteq Nat
  PROVE  Spec => []NeverOverspends
<1>1. EscrowInv /\ [EscrowNext]_escrowVars => EscrowInv'
  BY EscrowStep
<1>2. EscrowInv => NeverOverspends
  BY DEF EscrowInv
<1> QED
  BY <1>1, <1>2, EscrowBegins, ManagerIsEscrow, PTL DEF EscrowSpec

-----------------------------------------------------------------------------
(* speculative.rs: the probabilities *)

Tracker ==
  [probability : UNION {[D -> 0..One] : D \in SUBSET Keys}, observations : Nat, conflicts : Nat]

\* A key has a probability, if none was observed the default one.
LEMMA KeyProbabilities ==
  ASSUME NEW t \in Tracker, NEW k
  PROVE  KeyProbability(t, k) \in 0..One
BY SpeculationAssumption DEF Tracker, KeyProbability

\* The worst of some probabilities is one of them.
LEMMA WorstProbability ==
  ASSUME NEW t \in Tracker, NEW keys
  PROVE  EstimateProbability(t, keys) \in 0..One
<1>1. CASE keys = {}
  BY <1>1, SpeculationAssumption DEF EstimateProbability
<1>2. CASE keys # {}
  <2> DEFINE P == {KeyProbability(t, k) : k \in keys}
  <2>1. P \subseteq 0..One /\ P # {}
    BY <1>2, KeyProbabilities
  <2>2. \E m \in P : \A q \in P : m >= q
    <3> DEFINE D == {One - x : x \in P}
    <3>1. D \subseteq Nat /\ D # {}
      BY <2>1, SpeculationAssumption
    <3>2. PICK d \in D : \A e \in D : d <= e
      <4> HIDE DEF D
      <4> QED
        BY <3>1, LeastNumber
    <3>3. PICK x \in P : d = One - x
      OBVIOUS
    <3>4. \A q \in P : One - q \in D
      OBVIOUS
    <3> HIDE DEF P, D
    <3> QED
      BY <2>1, <3>2, <3>3, <3>4, SpeculationAssumption
  <2>3. (CHOOSE m \in P : \A q \in P : m >= q) \in P
    <3> HIDE DEF P
    <3> QED
      BY <2>2
  <2> QED
    BY <1>2, <2>1, <2>3 DEF EstimateProbability
<1> QED
  BY <1>1, <1>2

\* A step towards the target stays between the bounds.
LEMMA ProbabilityMoves ==
  ASSUME NEW p \in 0..One, NEW target \in {0, One}
  PROVE  p + (target - p) \div RateDivisor \in 0..One
<1>1. PICK d \in Nat \ {0} : d = RateDivisor
  BY SpeculationAssumption
<1>2. One \in Nat
  BY SpeculationAssumption
<1> DEFINE q == (target - p) \div d
<1>3. target - p \in Int /\ q \in Int
  BY <1>2
<1>4. d * q <= target - p /\ target - p < d * (q + 1)
  BY <1>3
<1> HIDE DEF q
<1>5. CASE target = 0
  <2>1. q <= 0
    BY <1>2, <1>3, <1>4, <1>5
  <2>2. -p <= q
    BY <1>2, <1>3, <1>4, <1>5
  <2> QED
    BY <1>1, <1>2, <1>3, <2>1, <2>2 DEF q
<1>6. CASE target = One
  <2>1. 0 <= q
    BY <1>2, <1>3, <1>4, <1>6
  <2>2. q <= One - p
    BY <1>2, <1>3, <1>4, <1>6
  <2> QED
    BY <1>1, <1>2, <1>3, <2>1, <2>2 DEF q
<1> QED
  BY <1>5, <1>6

\* Observations can follow each other: from p, named says which are of a key.
Observations(p, target, N, named) ==
  Iteration(0..One, p, N, [i \in 1..N |-> [x \in 0..One |->
    IF named[i] THEN x + (target - x) \div RateDivisor ELSE x]])

Observed(f, p, target, N, named) ==
  /\ f \in [0..N -> 0..One] /\ f[0] = p
  /\ \A i \in 1..N :
       f[i] = IF named[i] THEN f[i - 1] + (target - f[i - 1]) \div RateDivisor ELSE f[i - 1]

\* They stay probabilities, and each follows from the one before.
LEMMA ProbabilitiesIterate ==
  ASSUME NEW p \in 0..One, NEW target \in {0, One}, NEW N \in Nat, NEW named \in [1..N -> BOOLEAN]
  PROVE  Observed(Observations(p, target, N, named), p, target, N, named)
<1>1. PICK P, x, step : /\ P = 0..One /\ x = p
                        /\ step = [i \in 1..N |-> [y \in P |->
                                     IF named[i] THEN y + (target - y) \div RateDivisor ELSE y]]
  OBVIOUS
<1> DEFINE f == Iteration(P, x, N, step)
<1>2. x \in P /\ step \in [1..N -> [P -> P]]
  BY <1>1, ProbabilityMoves
<1>3. f \in [0..N -> P] /\ f[0] = x /\ \A i \in 1..N : f[i] = step[i][f[i - 1]]
  BY <1>2, Iterates
<1>4. f = Observations(p, target, N, named)
  BY <1>1 DEF Observations
<1> HIDE DEF f
<1>5. ASSUME NEW i \in 1..N
      PROVE  f[i] = IF named[i] THEN f[i - 1] + (target - f[i - 1]) \div RateDivisor ELSE f[i - 1]
  <2>1. f[i - 1] \in P
    BY <1>3
  <2> QED
    BY <1>1, <1>3, <2>1
<1> QED
  BY <1>1, <1>3, <1>4, <1>5 DEF Observed

\* What an operation does to the probability of key k.
LEMMA ProbabilitiesFollow ==
  ASSUME NEW t \in Tracker, NEW k, NEW ops \in Seq(AlgebraicOperation), NEW conflict
  PROVE  ProbabilitiesAfter(t, k, ops, conflict)[Len(ops)] \in 0..One
<1> DEFINE target == IF conflict THEN One ELSE 0
           p0 == KeyProbability(t, k)
           after == ProbabilitiesAfter(t, k, ops, conflict)
<1>1. PICK N \in Nat : N = Len(ops)
  OBVIOUS
<1>2. p0 \in 0..One
  BY KeyProbabilities
<1>3. PICK named \in [1..N -> BOOLEAN] : named = [i \in 1..N |-> ops[i].key = k]
  OBVIOUS
<1> HIDE DEF target
<1> DEFINE f == Observations(p0, target, N, named)
<1>4. /\ f \in [0..N -> 0..One] /\ f[0] = p0
      /\ \A i \in 1..N : f[i] = IF named[i]
                                 THEN f[i - 1] + (target - f[i - 1]) \div RateDivisor
                                 ELSE f[i - 1]
  <2>1. PICK x, g, h, M : x = p0 /\ g = target /\ h = named /\ M = N
    OBVIOUS
  <2>2. x \in 0..One /\ g \in {0, One} /\ h \in [1..M -> BOOLEAN] /\ M \in Nat
    BY <1>2, <2>1 DEF target
  <2>3. Observed(Observations(x, g, M, h), x, g, M, h)
    BY <2>2, ProbabilitiesIterate
  <2>4. f = Observations(x, g, M, h)
    BY <2>1
  <2>5. Observed(f, p0, target, N, named)
    BY <2>1, <2>3, <2>4
  <2> HIDE DEF f, p0
  <2> QED
    BY <2>5 DEF Observed
<1> HIDE DEF f
<1>5. f = [i \in 0..N |-> IF i = 0 THEN p0
                          ELSE IF ops[i].key = k
                               THEN f[i - 1] + (target - f[i - 1]) \div RateDivisor
                               ELSE f[i - 1]]
  <2>1. ASSUME NEW i \in 0..N
        PROVE  f[i] = IF i = 0 THEN p0
                      ELSE IF ops[i].key = k THEN f[i - 1] + (target - f[i - 1]) \div RateDivisor
                           ELSE f[i - 1]
    <3>1. CASE i = 0
      BY <1>4, <3>1
    <3>2. CASE i # 0
      <4>1. i \in 1..N
        BY <3>2
      <4>2. named[i] = (ops[i].key = k)
        BY <1>3, <4>1
      <4> HIDE DEF p0
      <4> QED
        BY <1>4, <3>2, <4>1, <4>2
    <3> QED
      BY <3>1, <3>2
  <2> HIDE DEF p0
  <2>2. f = [i \in 0..N |-> f[i]]
    BY <1>4
  <2> QED
    BY <2>1, <2>2
<1>6. after = [i \in 0..N |-> IF i = 0 THEN p0
                              ELSE IF ops[i].key = k
                                   THEN after[i - 1] + (target - after[i - 1]) \div RateDivisor
                                   ELSE after[i - 1]]
  BY <1>1, <1>5 DEF ProbabilitiesAfter, target
<1> DEFINE G == {i \in 0..N : after[i] \in 0..One}
<1> HIDE DEF after, p0
<1>7. ASSUME NEW i \in 1..N, i - 1 \in G PROVE i \in G
  <2>1. after[i - 1] \in 0..One /\ i # 0
    BY <1>7
  <2>2. after[i - 1] + (target - after[i - 1]) \div RateDivisor \in 0..One
    BY <2>1, ProbabilityMoves DEF target
  <2>3. after[i] = IF ops[i].key = k
                   THEN after[i - 1] + (target - after[i - 1]) \div RateDivisor ELSE after[i - 1]
    BY <1>6, <2>1
  <2> QED
    BY <2>1, <2>2, <2>3
<1>8. 0 \in G
  BY <1>2, <1>6
<1>9. N \in G
  <2>1. \A i \in 1..N : i - 1 \in G => i \in G
    BY <1>7
  <2> HIDE DEF G
  <2>2. 0..N \subseteq G
    BY <1>8, <2>1, NaturalSteps
  <2> QED
    BY <2>2
<1> QED
  BY <1>1, <1>9 DEF after

-----------------------------------------------------------------------------
(* The types of what threads share *)

Clock == UNION {[D -> Nat] : D \in SUBSET NodeId}

\* Clocks are what the type invariant calls one.
LEMMA ClocksAreClocks == EmptyClock \in Clock /\ \A c : c \in Clock <=> IsClock(c)
<1>1. EmptyClock \in Clock
  BY DEF Clock, EmptyClock
<1>2. ASSUME NEW c \in Clock PROVE IsClock(c)
  BY DEF Clock, IsClock
<1>3. ASSUME NEW c, IsClock(c) PROVE c \in Clock
  <2>1. c \in [DOMAIN c -> Nat] /\ DOMAIN c \in SUBSET NodeId
    BY <1>3 DEF IsClock
  <2> QED
    BY <2>1 DEF Clock
<1> QED
  BY <1>1, <1>2, <1>3

Update == [operations : Seq(AlgebraicOperation), clock : Clock, origin : Seq(NodeId)]

\* So are updates.
LEMMA UpdatesAreUpdates == \A u : u \in Update <=> IsUpdate(u)
BY ClocksAreClocks DEF Update, IsUpdate

\* What this node commits, and what arrives.
OwnUpdate == {u \in Update : u.origin = <<Self>> /\ u.operations # <<>> /\ u.operations \in Transactions}
RemoteUpdate == {u \in Update : u.origin # <<Self>> /\ u \in RemoteUpdates}

\* What callers hand to receive_update comes from other nodes.
LEMMA Arriving == RemoteUpdates \subseteq RemoteUpdate
BY ManagerAssumption, UpdatesAreUpdates DEF RemoteUpdate

\* What a thread works on at each place of its program.
Work == [idle |-> {Idle},
         tick |-> [call : {"speculate", "commit"}, tx : {tx \in Transactions : CanCommitLocally(tx)}],
         buffer |-> [call : {"speculate"}, update : OwnUpdate],
         apply |-> [call : {"commit", "confirm"}, update : OwnUpdate]
                     \cup [call : {"receive"}, update : RemoteUpdate],
         push |-> [call : {"commit", "confirm"}, update : OwnUpdate]]

ThreadsTyped ==
  /\ pc \in [Threads -> {"idle", "tick", "buffer", "apply", "push"}]
  /\ work = [t \in Threads |-> work[t]]
  /\ \A t \in Threads : work[t] \in Work[pc[t]]

Entry == [id : Nat, update : OwnUpdate, probability : 0..One, status : SpeculativeStatus]
BufferTyped ==
  /\ buffer \in [commits : Seq(Entry), tentative : UNION {[D -> Nat] : D \in SUBSET Keys},
                 nextId : Nat, tracker : Tracker]
  /\ \A i \in DOMAIN buffer.commits : buffer.commits[i].id = i
  /\ buffer.nextId = Len(buffer.commits) + 1

BaseTypes ==
  /\ clock \in Clock
  /\ committed \in Seq(OwnUpdate)
  /\ applied \in Seq([update : OwnUpdate \cup RemoteUpdate, op : AlgebraicOperation])
  /\ BufferTyped /\ ThreadsTyped
  /\ clockOwner \in Threads \cup {NoThread} /\ calls \in 0..MaxCalls

\* What a thread that begins, goes on or ends leaves behind.
LEMMA ThreadMoves ==
  ASSUME ThreadsTyped, NEW t \in Threads, NEW next \in {"idle", "tick", "buffer", "apply", "push"},
         NEW w \in Work[next],
         pc' = [pc EXCEPT ![t] = next], work' = [work EXCEPT ![t] = w]
  PROVE  /\ ThreadsTyped'
         /\ pc'[t] = next /\ work'[t] = w
         /\ \A x \in Threads \ {t} : pc'[x] = pc[x] /\ work'[x] = work[x]
BY DEF ThreadsTyped

\* What can be said of the work of a thread by where it is.
LEMMA WorkAt ==
  ASSUME ThreadsTyped, NEW t \in Threads
  PROVE  /\ pc[t] = "tick" => /\ work[t].tx \in Transactions /\ CanCommitLocally(work[t].tx)
                              /\ work[t].call \in {"speculate", "commit"}
                              /\ "update" \notin DOMAIN work[t]
         /\ pc[t] = "buffer" => work[t].update \in OwnUpdate /\ work[t].call = "speculate"
         /\ pc[t] = "apply" => \/ work[t].update \in OwnUpdate /\ work[t].call \in {"commit", "confirm"}
                               \/ work[t].update \in RemoteUpdate /\ work[t].call = "receive"
         /\ pc[t] = "push" => work[t].update \in OwnUpdate /\ work[t].call \in {"commit", "confirm"}
         /\ pc[t] = "idle" => work[t].call = "none"
         /\ "update" \in DOMAIN work[t] <=> pc[t] \in {"buffer", "apply", "push"}
<1>1. pc[t] \in {"idle", "tick", "buffer", "apply", "push"} /\ work[t] \in Work[pc[t]]
  BY DEF ThreadsTyped
<1>2. CASE pc[t] = "idle"
  BY <1>1, <1>2 DEF Work, Idle
<1>3. CASE pc[t] = "tick"
  BY <1>1, <1>3 DEF Work
<1>4. CASE pc[t] = "buffer"
  BY <1>1, <1>4 DEF Work
<1>5. CASE pc[t] = "apply"
  BY <1>1, <1>5 DEF Work
<1>6. CASE pc[t] = "push"
  BY <1>1, <1>6 DEF Work
<1> QED
  BY <1>1, <1>2, <1>3, <1>4, <1>5, <1>6

\* What commit_local makes of a transaction.
LEMMA CommitMakes ==
  ASSUME clock \in Clock, NEW tx \in Transactions, CanCommitLocally(tx)
  PROVE  /\ CommitLocal(tx, Self, clock).update \in OwnUpdate
         /\ CommitLocal(tx, Self, clock).update.clock = Tick(clock, Self)
         /\ ClockAfterCommit(tx, Self, clock) = Tick(clock, Self)
         /\ Tick(clock, Self) \in Clock
<1>1. Tick(clock, Self) \in Clock
  BY ClocksAreClocks, TickTime, ManagerAssumption
<1>2. CommitLocal(tx, Self, clock).update =
        [operations |-> tx, clock |-> Tick(clock, Self), origin |-> <<Self>>]
  BY DEF CommitLocal, CanCommitLocally, Ok
<1>3. tx \in Seq(AlgebraicOperation) /\ tx # <<>> /\ <<Self>> \in Seq(NodeId)
  BY ManagerAssumption DEF CanCommitLocally
<1>4. ClockAfterCommit(tx, Self, clock) = Tick(clock, Self)
  BY DEF ClockAfterCommit
<1> HIDE DEF Tick
<1> QED
  BY <1>1, <1>2, <1>3, <1>4 DEF OwnUpdate, Update

-----------------------------------------------------------------------------
(* The buffer *)

\* Operations name keys.
LEMMA KeysAreKeys ==
  ASSUME NEW ops \in Seq(AlgebraicOperation)
  PROVE  KeysOf(ops) \in SUBSET Keys
<1>1. \A i \in DOMAIN ops : ops[i] \in AlgebraicOperation
  OBVIOUS
<1>2. \A i \in DOMAIN ops : ops[i].key \in Keys
  BY <1>1 DEF AlgebraicOperation
<1> QED
  BY <1>2 DEF KeysOf

\* record_observation leaves a tracker, of probabilities.
LEMMA ObservationTypes ==
  ASSUME NEW t \in Tracker, NEW ops \in Seq(AlgebraicOperation), NEW conflict
  PROVE  RecordObservation(t, ops, conflict) \in Tracker
<1> DEFINE D == DOMAIN t.probability \cup KeysOf(ops)
           P == [k \in D |-> ProbabilitiesAfter(t, k, ops, conflict)[Len(ops)]]
<1>1. DOMAIN t.probability \in SUBSET Keys /\ t.observations \in Nat /\ t.conflicts \in Nat
  BY DEF Tracker
<1>2. KeysOf(ops) \in SUBSET Keys
  BY KeysAreKeys
<1>3. P \in [D -> 0..One] /\ D \in SUBSET Keys
  BY <1>1, <1>2, ProbabilitiesFollow
<1>4. RecordObservation(t, ops, conflict) =
        [probability |-> P, observations |-> t.observations + 1,
         conflicts |-> t.conflicts + (IF conflict THEN 1 ELSE 0)]
  BY DEF RecordObservation
<1>5. P \in UNION {[X -> 0..One] : X \in SUBSET Keys}
  <2> HIDE DEF P, D
  <2> QED
    BY <1>3
<1> HIDE DEF P
<1> QED
  BY <1>1, <1>4, <1>5 DEF Tracker

\* A speculative commit takes the next place, with the next identifier.
LEMMA AddTypes ==
  ASSUME BufferTyped, NEW u \in OwnUpdate, buffer' = AddSpeculative(buffer, u)
  PROVE  /\ BufferTyped' /\ Len(buffer'.commits) = Len(buffer.commits) + 1
         /\ \A i \in DOMAIN buffer.commits : buffer'.commits[i] = buffer.commits[i]
         /\ buffer'.commits[Len(buffer.commits) + 1].update = u
         /\ buffer'.commits[Len(buffer.commits) + 1].status = "Pending"
<1> DEFINE keys == KeysOf(u.operations)
           commit == TentativeCommit(buffer.nextId, u, EstimateProbability(buffer.tracker, keys))
           D == DOMAIN buffer.tentative \cup keys
           new == [k \in D |-> IF k \in keys THEN commit.id ELSE buffer.tentative[k]]
<1>1. /\ buffer.commits \in Seq(Entry) /\ buffer.nextId \in Nat /\ buffer.tracker \in Tracker
      /\ DOMAIN buffer.tentative \in SUBSET Keys /\ buffer.tentative \in [DOMAIN buffer.tentative -> Nat]
      /\ u.operations \in Seq(AlgebraicOperation)
  BY DEF BufferTyped, OwnUpdate, Update
<1>2. commit \in Entry /\ commit.id = buffer.nextId /\ commit.update = u /\ commit.status = "Pending"
  BY <1>1, WorstProbability DEF TentativeCommit, Entry, SpeculativeStatus
<1>3. keys \in SUBSET Keys
  BY <1>1, KeysAreKeys
<1> HIDE DEF commit, keys
<1>4. new \in [D -> Nat] /\ D \in SUBSET Keys
  BY <1>1, <1>2, <1>3
<1>5. /\ buffer'.commits = Append(buffer.commits, commit)
      /\ buffer' \in [commits : Seq(Entry), tentative : UNION {[X -> Nat] : X \in SUBSET Keys},
                      nextId : Nat, tracker : Tracker]
      /\ buffer'.nextId = buffer.nextId + 1
  <2>1. buffer' = [buffer EXCEPT !.commits = Append(@, commit), !.nextId = @ + 1, !.tentative = new]
    BY DEF AddSpeculative, commit, keys
  <2>2. Append(buffer.commits, commit) \in Seq(Entry) /\ buffer.nextId + 1 \in Nat
    BY <1>1, <1>2
  <2>3. new \in UNION {[X -> Nat] : X \in SUBSET Keys}
    <3> HIDE DEF new, D
    <3> QED
      BY <1>4
  <2> HIDE DEF new
  <2> QED
    BY <2>1, <2>2, <2>3 DEF BufferTyped
<1>6. /\ Len(buffer'.commits) = Len(buffer.commits) + 1
      /\ \A i \in DOMAIN buffer.commits : buffer'.commits[i] = buffer.commits[i]
      /\ buffer'.commits[Len(buffer.commits) + 1] = commit
      /\ DOMAIN buffer'.commits = DOMAIN buffer.commits \cup {Len(buffer.commits) + 1}
  BY <1>1, <1>5
<1> QED
  BY <1>2, <1>5, <1>6 DEF BufferTyped

\* The commit of an identifier stands at that place.
LEMMA CommitAt ==
  ASSUME BufferTyped, NEW id, IsPending(buffer, id)
  PROVE  /\ id \in DOMAIN buffer.commits /\ buffer.commits[id].status = "Pending"
         /\ CommitOf(buffer, id) = buffer.commits[id]
<1>1. PICK i \in DOMAIN buffer.commits : buffer.commits[i].id = id /\ buffer.commits[i].status = "Pending"
  BY DEF IsPending
<1>2. \A j \in DOMAIN buffer.commits : buffer.commits[j].id = j
  BY DEF BufferTyped
<1>3. i = id
  BY <1>1, <1>2
<1>4. (CHOOSE j \in DOMAIN buffer.commits : buffer.commits[j].id = id) = id
  BY <1>1, <1>2, <1>3
<1> QED
  BY <1>1, <1>3, <1>4 DEF CommitOf

\* A decision changes the status of one commit that was pending.
LEMMA DecideTypes ==
  ASSUME BufferTyped, NEW id, IsPending(buffer, id), NEW status \in {"Confirmed", "Aborted"},
         buffer' = Decide(buffer, id, status)
  PROVE  /\ BufferTyped' /\ DOMAIN buffer'.commits = DOMAIN buffer.commits
         /\ Len(buffer'.commits) = Len(buffer.commits)
         /\ \A i \in DOMAIN buffer.commits : buffer'.commits[i].update = buffer.commits[i].update
         /\ \A i \in DOMAIN buffer.commits \ {id} : buffer'.commits[i] = buffer.commits[i]
         /\ buffer'.commits[id].status = status
<1> DEFINE decided == [i \in DOMAIN buffer.commits |->
                         IF buffer.commits[i].id = id
                         THEN [buffer.commits[i] EXCEPT !.status = status] ELSE buffer.commits[i]]
           left == [k \in {j \in DOMAIN buffer.tentative : buffer.tentative[j] # id} |->
                      buffer.tentative[k]]
           seen == RecordObservation(buffer.tracker, CommitOf(buffer, id).update.operations,
                                     status = "Aborted")
<1>1. /\ buffer.commits \in Seq(Entry) /\ buffer.tracker \in Tracker
      /\ DOMAIN buffer.tentative \in SUBSET Keys /\ buffer.tentative \in [DOMAIN buffer.tentative -> Nat]
      /\ id \in DOMAIN buffer.commits /\ CommitOf(buffer, id) = buffer.commits[id]
      /\ \A i \in DOMAIN buffer.commits : buffer.commits[i].id = i
  BY CommitAt DEF BufferTyped
<1>2. \A i \in DOMAIN buffer.commits : buffer.commits[i] \in Entry
  BY <1>1
<1>3. seen \in Tracker
  <2>1. CommitOf(buffer, id).update.operations \in Seq(AlgebraicOperation)
    BY <1>1, <1>2 DEF Entry, OwnUpdate, Update
  <2> QED
    BY <1>1, <2>1, ObservationTypes
<1>4. left \in UNION {[X -> Nat] : X \in SUBSET Keys}
  <2> DEFINE D == {j \in DOMAIN buffer.tentative : buffer.tentative[j] # id}
  <2>1. D \in SUBSET Keys /\ left \in [D -> Nat]
    BY <1>1
  <2> HIDE DEF left, D
  <2> QED
    BY <2>1
<1>5. ASSUME NEW i \in DOMAIN buffer.commits
      PROVE  /\ decided[i] \in Entry /\ decided[i].id = i /\ decided[i].update = buffer.commits[i].update
             /\ i # id => decided[i] = buffer.commits[i]
             /\ i = id => decided[i].status = status
  BY <1>1, <1>2 DEF Entry, SpeculativeStatus
<1>6. decided \in Seq(Entry) /\ Len(decided) = Len(buffer.commits) /\ DOMAIN decided = DOMAIN buffer.commits
  <2>1. PICK N \in Nat : N = Len(buffer.commits) /\ DOMAIN buffer.commits = 1..N
    BY <1>1
  <2>2. decided \in [1..N -> Entry]
    <3>1. decided = [i \in DOMAIN buffer.commits |-> decided[i]]
      OBVIOUS
    <3> HIDE DEF decided
    <3> QED
      BY <1>5, <2>1, <3>1
  <2> HIDE DEF decided
  <2> QED
    BY <2>1, <2>2
<1> HIDE DEF decided, left, seen
<1>7. buffer' = [buffer EXCEPT !.commits = decided, !.tracker = seen, !.tentative = left]
  BY DEF Decide, decided, left, seen
<1>8. /\ buffer' \in [commits : Seq(Entry), tentative : UNION {[X -> Nat] : X \in SUBSET Keys},
                      nextId : Nat, tracker : Tracker]
      /\ buffer'.commits = decided /\ buffer'.nextId = buffer.nextId
  BY <1>3, <1>4, <1>6, <1>7 DEF BufferTyped
<1> QED
  BY <1>1, <1>5, <1>6, <1>8 DEF BufferTyped

-----------------------------------------------------------------------------
(* The inductive invariant *)

\* The updates this node knows of.
Seen ==
  {applied[i].update : i \in DOMAIN applied} \cup {committed[i] : i \in DOMAIN committed}
    \cup {buffer.commits[i].update : i \in DOMAIN buffer.commits}
    \cup {work[t].update : t \in {x \in Threads : pc[x] \in {"buffer", "apply", "push"}}}

\* The clock covers them, and the own ones differ in their ticks.
ClocksHold ==
  /\ \A u \in Seen : u \in OwnUpdate \cup RemoteUpdate /\ Covers(clock, u.clock)
  /\ \A u \in Seen \cap OwnUpdate : Time(u.clock, Self) >= 1
  /\ \A u, v \in Seen \cap OwnUpdate : Time(u.clock, Self) = Time(v.clock, Self) => u = v

\* A thread is busy with an update of this node.
Has(t, u) ==
  pc[t] \in {"buffer", "apply", "push"} /\ work[t].call # "receive" /\ work[t].update = u
Places(u) == {i \in DOMAIN committed : committed[i] = u}
Listed(u) == Places(u) # {}
EntryOf(i, u) == i \in DOMAIN buffer.commits /\ buffer.commits[i].update = u

\* An update of this node is in one stage at a time: with one thread, or in
\* the buffer undecided or rolled back, neither applied nor listed; or with the
\* thread that applied it; or listed.
OneThread(u) == \A t, x \in Threads : Has(t, u) /\ Has(x, u) => t = x
OneEntry(u) == \A i, j \in DOMAIN buffer.commits : EntryOf(i, u) /\ EntryOf(j, u) => i = j
ListedOnce(u) ==
  /\ \A i, j \in Places(u) : i = j
  /\ Listed(u) => AllApplied(u)
HeldStage(u) ==
  \A t \in Threads : Has(t, u) =>
    /\ ~Listed(u)
    /\ IF pc[t] = "push" THEN AllApplied(u) ELSE AppliedOf(u) = {}
    /\ \A i \in DOMAIN buffer.commits : EntryOf(i, u) =>
         work[t].call = "confirm" /\ buffer.commits[i].status = "Confirmed"
EntryStage(u) ==
  \A i \in DOMAIN buffer.commits : EntryOf(i, u) =>
    IF buffer.commits[i].status = "Confirmed"
    THEN (\A t \in Threads : ~Has(t, u)) => (AllApplied(u) <=> Listed(u))
    ELSE AppliedOf(u) = {} /\ ~Listed(u)

Stage(u) == OneThread(u) /\ OneEntry(u) /\ ListedOnce(u) /\ HeldStage(u) /\ EntryStage(u)

SharedInv == BaseTypes /\ ClocksHold /\ \A u \in OwnUpdate : Stage(u)

\* A new manager satisfies it: nothing was taken, applied or listed.
LEMMA SharedBegins == Init => SharedInv
<1> SUFFICES ASSUME Init PROVE SharedInv
  OBVIOUS
<1>1. [k \in {} |-> 0] \in UNION {[X -> Nat] : X \in SUBSET Keys}
  <2>1. [k \in {} |-> 0] \in [{} -> Nat] /\ {} \in SUBSET Keys
    OBVIOUS
  <2> QED
    BY <2>1
<1>2. NewTracker \in Tracker
  <2>1. [k \in {} |-> 0] \in [{} -> 0..One] /\ {} \in SUBSET Keys
    OBVIOUS
  <2> QED
    BY <2>1 DEF NewTracker, Tracker
<1>3. /\ committed = <<>> /\ applied = <<>> /\ buffer.commits = <<>>
      /\ \A t \in Threads : pc[t] = "idle"
  BY DEF Init, NewBuffer
<1>4. BaseTypes
  <2>1. BufferTyped
    <3>1. \A E, T, U, e : e \in U /\ NewTracker \in T =>
            [commits |-> <<>>, tentative |-> e, nextId |-> 1, tracker |-> NewTracker]
              \in [commits : Seq(E), tentative : U, nextId : Nat, tracker : T]
      <4> HIDE DEF NewTracker
      <4> QED
        OBVIOUS
    <3>2. buffer = [commits |-> <<>>, tentative |-> [k \in {} |-> 0], nextId |-> 1, tracker |-> NewTracker]
      BY DEF Init, NewBuffer
    <3>3. buffer \in [commits : Seq(Entry), tentative : UNION {[X -> Nat] : X \in SUBSET Keys},
                      nextId : Nat, tracker : Tracker]
      BY <1>1, <1>2, <3>1, <3>2, Zenon
    <3>4. buffer.commits = <<>> /\ buffer.nextId = 1
      BY <3>2
    <3> QED
      BY <3>3, <3>4 DEF BufferTyped
  <2>2. ThreadsTyped
    BY DEF Init, ThreadsTyped, Work
  <2> QED
    BY <1>3, <2>1, <2>2, ClocksAreClocks, ManagerAssumption DEF Init, BaseTypes
<1>5. Seen = {}
  BY <1>3 DEF Seen
<1>6. ASSUME NEW u \in OwnUpdate PROVE Stage(u)
  BY <1>3 DEF Stage, OneThread, OneEntry, ListedOnce, HeldStage, EntryStage, Has, EntryOf, Listed, Places
<1> QED
  BY <1>4, <1>5, <1>6 DEF SharedInv, ClocksHold

\* Nothing new to the node.
LEMMA NothingNew ==
  ASSUME ClocksHold, Seen' \subseteq Seen, clock' = clock
  PROVE  ClocksHold'
BY DEF ClocksHold

\* A clock that covers the old one and the new update, which has a tick of
\* its own if it is of this node.
LEMMA OneNew ==
  ASSUME clock \in Clock, ClocksHold, clock' \in Clock, Covers(clock', clock),
         NEW u \in OwnUpdate \cup RemoteUpdate, Seen' \subseteq Seen \cup {u}, Covers(clock', u.clock),
         u \in OwnUpdate => Time(u.clock, Self) = Time(clock, Self) + 1
  PROVE  ClocksHold'
<1>1. /\ OwnUpdate' = OwnUpdate /\ RemoteUpdate' = RemoteUpdate
  BY DEF OwnUpdate, RemoteUpdate
<1>2. ASSUME NEW v \in Seen'
      PROVE  v \in OwnUpdate \cup RemoteUpdate /\ Covers(clock', v.clock)
  <2>1. CASE v = u
    BY <2>1
  <2>2. CASE v \in Seen
    <3>1. v \in Update /\ Covers(clock, v.clock)
      BY <2>2 DEF ClocksHold, OwnUpdate, RemoteUpdate
    <3>2. IsClock(v.clock) /\ IsClock(clock) /\ IsClock(clock')
      BY <3>1, ClocksAreClocks DEF Update
    <3>3. Covers(clock', v.clock)
      BY <3>1, <3>2, CoversTransitive
    <3> QED
      BY <2>2, <3>3 DEF ClocksHold
  <2> QED
    BY <2>1, <2>2
<1>3. \A v \in OwnUpdate \cup RemoteUpdate : Time(v.clock, Self) \in Nat
  BY ClocksAreClocks, TimeType DEF OwnUpdate, RemoteUpdate, Update
<1>4. Time(clock, Self) \in Nat
  BY ClocksAreClocks, TimeType
<1>5. \A v \in Seen \cap OwnUpdate : Time(v.clock, Self) \in 1..Time(clock, Self)
  BY <1>3, <1>4, ManagerAssumption DEF ClocksHold, Covers
<1>6. \A v \in Seen' \cap OwnUpdate : v \in Seen \/ Time(v.clock, Self) = Time(clock, Self) + 1
  OBVIOUS
<1>7. \A v \in Seen' \cap OwnUpdate : Time(v.clock, Self) >= 1
  BY <1>4, <1>5, <1>6
<1>8. ASSUME NEW v \in Seen' \cap OwnUpdate, NEW w \in Seen' \cap OwnUpdate,
             Time(v.clock, Self) = Time(w.clock, Self)
      PROVE  v = w
  <2>1. CASE v \in Seen /\ w \in Seen
    BY <1>8, <2>1 DEF ClocksHold
  <2>2. CASE v \notin Seen /\ w \in Seen
    BY <1>4, <1>5, <1>6, <1>8, <2>2
  <2>3. CASE v \in Seen /\ w \notin Seen
    BY <1>4, <1>5, <1>6, <1>8, <2>3
  <2>4. CASE v \notin Seen /\ w \notin Seen
    BY <2>4
  <2> QED
    BY <2>1, <2>2, <2>3, <2>4
<1> QED
  BY <1>1, <1>2, <1>7, <1>8 DEF ClocksHold

\* A step of thread t that has nothing to do with update u leaves its stage.
LEMMA SameStage ==
  ASSUME NEW u, Stage(u), NEW t \in Threads,
         \A x \in Threads \ {t} : pc'[x] = pc[x] /\ work'[x] = work[x],
         ~Has(t, u), ~Has(t, u)',
         AppliedOf(u)' = AppliedOf(u), Places(u)' = Places(u),
         \A i : EntryOf(i, u)' <=> EntryOf(i, u),
         \A i : EntryOf(i, u) => buffer'.commits[i].status = buffer.commits[i].status
  PROVE  Stage(u)'
<1>1. \A x \in Threads : Has(x, u)' <=> Has(x, u)
  BY DEF Has
<1>2. \A x \in Threads : Has(x, u) => pc'[x] = pc[x] /\ work'[x] = work[x]
  OBVIOUS
<1>3. /\ AllApplied(u)' <=> AllApplied(u)
      /\ Listed(u)' <=> Listed(u)
  BY DEF AllApplied, Listed
<1>4. \A i : EntryOf(i, u) => i \in DOMAIN buffer.commits
  BY DEF EntryOf
<1> HIDE DEF Has, EntryOf, AllApplied, Listed, AppliedOf, Places
<1>5. OneThread(u)'
  BY <1>1 DEF OneThread, Stage
<1>6. OneEntry(u)'
  BY <1>4 DEF OneEntry, Stage
<1>7. ListedOnce(u)'
  BY <1>3 DEF ListedOnce, Stage
<1>8. HeldStage(u)'
  BY <1>1, <1>2, <1>3, <1>4 DEF HeldStage, Stage
<1>9. EntryStage(u)'
  BY <1>1, <1>3, <1>4 DEF EntryStage, Stage
<1> QED
  BY <1>5, <1>6, <1>7, <1>8, <1>9 DEF Stage

\* An update that only a thread has.
LEMMA NewStage ==
  ASSUME NEW u, u \notin Seen, NEW t \in Threads,
         \A x \in Threads \ {t} : pc'[x] = pc[x] /\ work'[x] = work[x],
         pc'[t] \in {"buffer", "apply"},
         committed' = committed, applied' = applied, buffer' = buffer
  PROVE  Stage(u)'
<1>1. /\ \A x \in Threads \ {t} : ~Has(x, u)'
      /\ AppliedOf(u)' = {} /\ Places(u)' = {} /\ \A i : ~EntryOf(i, u)'
  BY DEF Seen, Has, AppliedOf, Places, EntryOf
<1>2. ~Listed(u)'
  BY <1>1 DEF Listed
<1> HIDE DEF Has, AppliedOf, Places, EntryOf, Listed
<1> QED
  BY <1>1, <1>2 DEF Stage, OneThread, OneEntry, ListedOnce, HeldStage, EntryStage


-----------------------------------------------------------------------------
(* What the actions do to the invariant *)

\* A commit of this node has a tick that none had.
LEMMA FreshTick ==
  ASSUME BaseTypes, ClocksHold, NEW tx \in Transactions, CanCommitLocally(tx),
         clock' = ClockAfterCommit(tx, Self, clock),
         NEW u, u = CommitLocal(tx, Self, clock).update
  PROVE  /\ u \in OwnUpdate /\ u \notin Seen /\ clock' \in Clock
         /\ Covers(clock', clock) /\ Covers(clock', u.clock)
         /\ Time(u.clock, Self) = Time(clock, Self) + 1
<1>1. clock \in Clock /\ IsClock(clock) /\ Self \in NodeId
  BY ClocksAreClocks, ManagerAssumption DEF BaseTypes
<1>2. /\ u \in OwnUpdate /\ u.clock = Tick(clock, Self)
      /\ clock' = Tick(clock, Self) /\ clock' \in Clock
  BY <1>1, CommitMakes
<1>3. /\ Time(u.clock, Self) = Time(clock, Self) + 1
      /\ \A m \in NodeId \ {Self} : Time(u.clock, m) = Time(clock, m)
      /\ \A m \in NodeId : Time(clock, m) \in Nat
  BY <1>1, <1>2, TickTime, TimeType
<1>4. Covers(u.clock, clock) /\ Covers(u.clock, u.clock)
  <2> HIDE DEF Time
  <2> QED
    BY <1>3, <1>1 DEF Covers
<1>5. u \notin Seen
  <2> SUFFICES ASSUME u \in Seen PROVE FALSE
    OBVIOUS
  <2>1. Time(u.clock, Self) <= Time(clock, Self)
    BY <1>1 DEF ClocksHold, Covers
  <2> QED
    BY <1>1, <1>3, <2>1
<1> QED
  BY <1>2, <1>3, <1>4, <1>5

\* A step that leaves the buffer leaves its types.
LEMMA BufferStays == ASSUME BufferTyped, buffer' = buffer PROVE BufferTyped'
BY DEF BufferTyped

\* It begins with the thread that took it.
LEMMA CommitBegins ==
  ASSUME SharedInv, NEW t \in Threads, NEW tx \in Transactions, CanCommitLocally(tx),
         TickClock(t, tx), NEW u, u = CommitLocal(tx, Self, clock).update,
         pc[t] \in {"idle", "tick"}, NEW next, NEW call,
         \/ next = "buffer" /\ call = "speculate"
         \/ next = "apply" /\ call = "commit",
         pc' = [pc EXCEPT ![t] = next], work' = [work EXCEPT ![t] = [call |-> call, update |-> u]],
         calls' \in 0..MaxCalls, UNCHANGED <<committed, buffer, applied>>
  PROVE  SharedInv'
<1>1. /\ u \in OwnUpdate /\ u \notin Seen /\ clock' \in Clock
      /\ Covers(clock', clock) /\ Covers(clock', u.clock)
      /\ Time(u.clock, Self) = Time(clock, Self) + 1
  BY FreshTick DEF SharedInv, TickClock
<1>2. [call |-> call, update |-> u] \in Work[next]
  <2>1. CASE next = "buffer" /\ call = "speculate"
    BY <1>1, <2>1 DEF Work
  <2>2. CASE next = "apply" /\ call = "commit"
    BY <1>1, <2>2 DEF Work
  <2> QED
    BY <2>1, <2>2
<1>3. /\ ThreadsTyped' /\ pc'[t] = next /\ work'[t].update = u
      /\ \A x \in Threads \ {t} : pc'[x] = pc[x] /\ work'[x] = work[x]
  <2>1. PICK w : w = [call |-> call, update |-> u]
    OBVIOUS
  <2>2. w.update = u /\ w \in Work[next] /\ work' = [work EXCEPT ![t] = w]
    BY <1>2, <2>1
  <2>3. next \in {"idle", "tick", "buffer", "apply", "push"} /\ ThreadsTyped
    BY DEF SharedInv, BaseTypes
  <2>4. /\ ThreadsTyped' /\ pc'[t] = next /\ work'[t] = w
        /\ \A x \in Threads \ {t} : pc'[x] = pc[x] /\ work'[x] = work[x]
    BY <2>2, <2>3, ThreadMoves
  <2> QED
    BY <2>2, <2>4
<1>4. BaseTypes'
  BY <1>1, <1>3, BufferStays DEF SharedInv, BaseTypes, TickClock
<1>5. Seen' \subseteq Seen \cup {u}
  BY <1>3 DEF Seen
<1>6. ClocksHold'
  BY <1>1, <1>5, OneNew DEF SharedInv, BaseTypes
<1>7. ASSUME NEW v \in OwnUpdate PROVE Stage(v)'
  <2>1. CASE v = u
    BY <1>1, <1>3, <2>1, NewStage
  <2>2. CASE v # u
    <3>1. ~Has(t, v) /\ ~Has(t, v)'
      BY <1>3, <2>2 DEF Has
    <3>2. /\ AppliedOf(v)' = AppliedOf(v) /\ Places(v)' = Places(v)
          /\ \A i : EntryOf(i, v)' <=> EntryOf(i, v)
      BY DEF AppliedOf, Places, EntryOf
    <3> QED
      BY <1>3, <3>1, <3>2, SameStage DEF SharedInv
  <2> QED
    BY <2>1, <2>2
<1>8. OwnUpdate' = OwnUpdate
  BY DEF OwnUpdate
<1> QED
  BY <1>4, <1>6, <1>7, <1>8 DEF SharedInv

\* commit_local takes the tick.
LEMMA BeginCommitKeeps ==
  ASSUME SharedInv, NEW t \in Threads, NEW tx \in Transactions, BeginCommit(t, tx)
  PROVE  SharedInv'
<1>1. /\ CanCommitLocally(tx) /\ TickClock(t, tx) /\ pc[t] = "idle" /\ calls < MaxCalls
      /\ calls' = calls + 1 /\ pc' = [pc EXCEPT ![t] = "apply"]
      /\ work' = [work EXCEPT ![t] = [call |-> "commit", update |-> CommitLocal(tx, Self, clock).update]]
      /\ UNCHANGED <<committed, buffer, applied>>
  BY DEF BeginCommit, Begin
<1>2. calls' \in 0..MaxCalls
  BY <1>1, ManagerAssumption DEF SharedInv, BaseTypes
<1> QED
  BY <1>1, <1>2, CommitBegins

\* So does commit_with_speculation, whichever way it decided.
LEMMA TakeTickKeeps ==
  ASSUME SharedInv, NEW t \in Threads, TakeTick(t)
  PROVE  SharedInv'
<1>1. PICK tx, call, next : tx = work[t].tx /\ call = work[t].call
        /\ next = IF call = "speculate" THEN "buffer" ELSE "apply"
  OBVIOUS
<1>2. /\ pc[t] = "tick" /\ TickClock(t, tx) /\ pc' = [pc EXCEPT ![t] = next] /\ calls' = calls
      /\ UNCHANGED <<committed, buffer, applied>>
  BY <1>1 DEF TakeTick, Goto
<1>3. tx \in Transactions /\ CanCommitLocally(tx) /\ call \in {"speculate", "commit"}
  BY <1>1, <1>2, WorkAt DEF SharedInv, BaseTypes
<1>4. work' = [work EXCEPT ![t] = [call |-> call, update |-> CommitLocal(tx, Self, clock).update]]
  BY <1>1 DEF TakeTick, SharedInv, BaseTypes, ThreadsTyped
<1>5. calls' \in 0..MaxCalls
  BY <1>2 DEF SharedInv, BaseTypes
<1> QED
  BY <1>1, <1>2, <1>3, <1>4, <1>5, CommitBegins

\* Where a thread goes that was idle, with what it begins with.
LEMMA ThreadBegins ==
  ASSUME SharedInv, NEW t \in Threads, NEW next, NEW w, Begin(t, next, w),
         next \in {"idle", "tick", "buffer", "apply", "push"}, w \in Work[next]
  PROVE  /\ ThreadsTyped' /\ calls' \in 0..MaxCalls
         /\ pc[t] = "idle" /\ pc'[t] = next /\ work'[t] = w
         /\ \A x \in Threads \ {t} : pc'[x] = pc[x] /\ work'[x] = work[x]
<1>1. /\ pc[t] = "idle" /\ calls < MaxCalls /\ calls' = calls + 1
      /\ pc' = [pc EXCEPT ![t] = next] /\ work' = [work EXCEPT ![t] = w]
  BY DEF Begin
<1>2. ThreadsTyped /\ calls \in 0..MaxCalls
  BY DEF SharedInv, BaseTypes
<1> HIDE DEF Work
<1>3. /\ ThreadsTyped' /\ pc'[t] = next /\ work'[t] = w
      /\ \A x \in Threads \ {t} : pc'[x] = pc[x] /\ work'[x] = work[x]
  BY <1>1, <1>2, ThreadMoves
<1> QED
  BY <1>1, <1>2, <1>3, ManagerAssumption

\* A thread that has no update of this node, and gets none.
LEMMA Elsewhere ==
  ASSUME SharedInv, NEW t \in Threads,
         \A x \in Threads \ {t} : pc'[x] = pc[x] /\ work'[x] = work[x],
         pc[t] \in {"idle", "tick"}, pc'[t] \in {"idle", "tick"} \/ work'[t].call = "receive",
         UNCHANGED <<committed, buffer, applied>>
  PROVE  \A u \in OwnUpdate : Stage(u)'
<1> SUFFICES ASSUME NEW u \in OwnUpdate PROVE Stage(u)'
  OBVIOUS
<1>1. ~Has(t, u) /\ ~Has(t, u)'
  BY DEF Has
<1>2. /\ AppliedOf(u)' = AppliedOf(u) /\ Places(u)' = Places(u)
      /\ \A i : EntryOf(i, u)' <=> EntryOf(i, u)
  BY DEF AppliedOf, Places, EntryOf
<1>3. Stage(u)
  BY DEF SharedInv
<1> QED
  BY <1>1, <1>2, <1>3, SameStage

\* receive_update merges the clock of what it got.
LEMMA BeginReceiveKeeps ==
  ASSUME SharedInv, NEW t \in Threads, NEW u \in RemoteUpdates, BeginReceive(t, u)
  PROVE  SharedInv'
<1>1. /\ clock' = MergeClocks(clock, u.clock) /\ clockOwner' = clockOwner
      /\ UNCHANGED <<committed, buffer, applied>>
      /\ Begin(t, "apply", [call |-> "receive", update |-> u])
  BY DEF BeginReceive
<1>2. u \in RemoteUpdate /\ u \notin OwnUpdate /\ u.clock \in Clock /\ clock \in Clock
  BY Arriving DEF RemoteUpdate, OwnUpdate, Update, SharedInv, BaseTypes
<1>3. [call |-> "receive", update |-> u] \in Work["apply"]
  BY <1>2 DEF Work
<1>4. PICK w : w = [call |-> "receive", update |-> u]
  OBVIOUS
<1>5. w \in Work["apply"] /\ Begin(t, "apply", w) /\ w.call = "receive" /\ w.update = u
  BY <1>1, <1>3, <1>4
<1>6. /\ ThreadsTyped' /\ calls' \in 0..MaxCalls
      /\ pc[t] = "idle" /\ pc'[t] = "apply" /\ work'[t] = w
      /\ \A x \in Threads \ {t} : pc'[x] = pc[x] /\ work'[x] = work[x]
  <2> HIDE DEF Work
  <2> QED
    BY <1>5, ThreadBegins
<1>7. clock' \in Clock /\ Covers(clock', clock) /\ Covers(clock', u.clock)
  <2>1. IsClock(clock) /\ IsClock(u.clock)
    BY <1>2, ClocksAreClocks
  <2> QED
    BY <1>1, <2>1, MergeTime, MergeCovers, ClocksAreClocks
<1>8. BaseTypes'
  BY <1>1, <1>6, <1>7, BufferStays DEF SharedInv, BaseTypes
<1>9. Seen' \subseteq Seen \cup {u}
  BY <1>1, <1>5, <1>6 DEF Seen
<1>10. ClocksHold'
  BY <1>2, <1>7, <1>9, OneNew DEF SharedInv, BaseTypes
<1>11. \A v \in OwnUpdate : Stage(v)'
  BY <1>1, <1>5, <1>6, Elsewhere
<1>12. OwnUpdate' = OwnUpdate
  BY DEF OwnUpdate
<1> QED
  BY <1>8, <1>10, <1>11, <1>12 DEF SharedInv

\* A call that begins with nothing in its hands.
LEMMA CallBegins ==
  ASSUME SharedInv, NEW t \in Threads, NEW next \in {"idle", "tick"}, NEW w \in Work[next],
         Begin(t, next, w), UNCHANGED <<clock, committed, buffer, applied, clockOwner>>
  PROVE  SharedInv'
<1>1. /\ ThreadsTyped' /\ calls' \in 0..MaxCalls
      /\ pc[t] = "idle" /\ pc'[t] = next /\ work'[t] = w
      /\ \A x \in Threads \ {t} : pc'[x] = pc[x] /\ work'[x] = work[x]
  <2> HIDE DEF Work
  <2> QED
    BY ThreadBegins
<1>2. BaseTypes'
  BY <1>1, BufferStays DEF SharedInv, BaseTypes
<1>3. ClocksHold'
  <2>1. Seen' \subseteq Seen
    BY <1>1 DEF Seen
  <2> QED
    BY <2>1, NothingNew DEF SharedInv
<1>4. \A v \in OwnUpdate : Stage(v)'
  BY <1>1, Elsewhere
<1>5. OwnUpdate' = OwnUpdate
  BY DEF OwnUpdate
<1> QED
  BY <1>2, <1>3, <1>4, <1>5 DEF SharedInv

\* commit_with_speculation reads the buffer.
LEMMA BeginSpeculationKeeps ==
  ASSUME SharedInv, NEW t \in Threads, NEW tx \in Transactions, BeginSpeculation(t, tx)
  PROVE  SharedInv'
<1>1. PICK w : w = [call |-> IF ShouldSpeculate(buffer, KeysOf(tx)) THEN "speculate" ELSE "commit",
                    tx |-> tx]
  OBVIOUS
<1>2. /\ CanCommitLocally(tx) /\ Begin(t, "tick", w)
      /\ UNCHANGED <<clock, committed, buffer, applied, clockOwner>>
  BY <1>1 DEF BeginSpeculation, managerVars
<1>3. w \in Work["tick"]
  BY <1>1, <1>2 DEF Work
<1> HIDE DEF Work
<1> QED
  BY <1>2, <1>3, CallBegins

\* The operations of the escrow.
LEMMA UseEscrowKeeps ==
  ASSUME SharedInv, NEW t \in Threads, UseEscrow(t)
  PROVE  SharedInv'
<1>1. Begin(t, "idle", Idle) /\ UNCHANGED <<clock, committed, buffer, applied, clockOwner>>
  BY DEF UseEscrow, managerVars
<1>2. Idle \in Work["idle"]
  BY DEF Work
<1> HIDE DEF Work
<1> QED
  BY <1>1, <1>2, CallBegins

\* A thread that ends.
LEMMA ThreadEnds ==
  ASSUME BaseTypes, NEW t \in Threads, End(t)
  PROVE  /\ ThreadsTyped' /\ calls' \in 0..MaxCalls /\ clockOwner' \in Threads \cup {NoThread}
         /\ pc'[t] = "idle" /\ work'[t] = Idle /\ \A u : ~Has(t, u)'
         /\ \A x \in Threads \ {t} : pc'[x] = pc[x] /\ work'[x] = work[x]
<1>1. /\ pc' = [pc EXCEPT ![t] = "idle"] /\ work' = [work EXCEPT ![t] = Idle] /\ calls' = calls
      /\ clockOwner' \in {clockOwner, NoThread}
  BY DEF End
<1>2. ThreadsTyped /\ calls \in 0..MaxCalls /\ clockOwner \in Threads \cup {NoThread}
  BY DEF BaseTypes
<1>3. Idle \in Work["idle"]
  BY DEF Work
<1> HIDE DEF Work
<1>4. /\ ThreadsTyped' /\ pc'[t] = "idle" /\ work'[t] = Idle
      /\ \A x \in Threads \ {t} : pc'[x] = pc[x] /\ work'[x] = work[x]
  BY <1>1, <1>2, <1>3, ThreadMoves
<1> QED
  BY <1>1, <1>2, <1>4 DEF Has

\* The thread hands its update to the buffer.
LEMMA SpeculateKeeps ==
  ASSUME SharedInv, NEW t \in Threads, Speculate(t)
  PROVE  SharedInv'
<1>1. PICK u : u = work[t].update
  OBVIOUS
<1>2. /\ pc[t] = "buffer" /\ buffer' = AddSpeculative(buffer, u) /\ End(t)
      /\ UNCHANGED <<clock, committed, applied>>
  BY <1>1 DEF Speculate
<1>3. u \in OwnUpdate /\ work[t].call = "speculate" /\ Has(t, u)
  BY <1>1, <1>2, WorkAt DEF SharedInv, BaseTypes, Has
<1>4. PICK n : n = Len(buffer.commits) + 1
  OBVIOUS
<1>5. /\ BufferTyped' /\ DOMAIN buffer'.commits = DOMAIN buffer.commits \cup {n}
      /\ n \notin DOMAIN buffer.commits
      /\ \A i \in DOMAIN buffer.commits : buffer'.commits[i] = buffer.commits[i]
      /\ buffer'.commits[n].update = u /\ buffer'.commits[n].status = "Pending"
  <2>1. BufferTyped
    BY DEF SharedInv, BaseTypes
  <2>2. /\ BufferTyped' /\ Len(buffer'.commits) = Len(buffer.commits) + 1
        /\ \A i \in DOMAIN buffer.commits : buffer'.commits[i] = buffer.commits[i]
        /\ buffer'.commits[n].update = u /\ buffer'.commits[n].status = "Pending"
    BY <1>2, <1>3, <1>4, <2>1, AddTypes
  <2>3. buffer.commits \in Seq(Entry) /\ buffer'.commits \in Seq(Entry)
    BY <2>1, <2>2 DEF BufferTyped
  <2> QED
    BY <1>4, <2>2, <2>3
<1>6. /\ ThreadsTyped' /\ calls' \in 0..MaxCalls /\ clockOwner' \in Threads \cup {NoThread}
      /\ pc'[t] = "idle" /\ \A v : ~Has(t, v)'
      /\ \A x \in Threads \ {t} : pc'[x] = pc[x] /\ work'[x] = work[x]
  BY <1>2, ThreadEnds DEF SharedInv
<1>7. BaseTypes'
  BY <1>2, <1>5, <1>6 DEF SharedInv, BaseTypes
<1>8. ClocksHold'
  <2>1. Seen' \subseteq Seen
    BY <1>1, <1>2, <1>5, <1>6 DEF Seen
  <2> QED
    BY <1>2, <2>1, NothingNew DEF SharedInv
<1>9. ASSUME NEW v \in OwnUpdate PROVE Stage(v)'
  <2>1. /\ Stage(v) /\ AppliedOf(v)' = AppliedOf(v) /\ Places(v)' = Places(v)
    BY <1>2 DEF SharedInv, AppliedOf, Places
  <2>2. CASE v # u
    <3>1. ~Has(t, v)
      BY <1>3, <2>2 DEF Has
    <3>2. /\ \A i : EntryOf(i, v)' <=> EntryOf(i, v)
          /\ \A i : EntryOf(i, v) => buffer'.commits[i].status = buffer.commits[i].status
      BY <1>5, <2>2 DEF EntryOf
    <3> QED
      BY <1>6, <2>1, <3>1, <3>2, SameStage
  <2>3. CASE v = u
    <3>1. \A x \in Threads : ~Has(x, v)'
      <4>1. \A x \in Threads : Has(x, v) => x = t
        BY <1>3, <2>1, <2>3 DEF Stage, OneThread
      <4> QED
        BY <1>6, <4>1 DEF Has
    <3>2. /\ ~Listed(v) /\ AppliedOf(v) = {} /\ \A i : ~EntryOf(i, v)
      <4>1. pc[t] # "push" /\ work[t].call # "confirm" /\ Has(t, v)
        BY <1>2, <1>3, <2>3
      <4>2. \A i : EntryOf(i, v) => i \in DOMAIN buffer.commits
        BY DEF EntryOf
      <4> HIDE DEF Has, EntryOf
      <4> QED
        BY <2>1, <4>1, <4>2 DEF Stage, HeldStage
    <3>3. /\ ~Listed(v)' /\ AppliedOf(v)' = {} /\ Places(v)' = {}
      BY <2>1, <3>2 DEF Listed
    <3>4. /\ \A i : EntryOf(i, v)' => i = n
          /\ buffer'.commits[n].status = "Pending"
      BY <1>5, <3>2 DEF EntryOf
    <3> HIDE DEF Has, AppliedOf, Places, EntryOf, Listed
    <3> QED
      BY <3>1, <3>3, <3>4 DEF Stage, OneThread, OneEntry, ListedOnce, HeldStage, EntryStage
  <2> QED
    BY <2>2, <2>3
<1>10. OwnUpdate' = OwnUpdate
  BY DEF OwnUpdate
<1> QED
  BY <1>7, <1>8, <1>9, <1>10 DEF SharedInv

\* A commit that is pending is with no thread, and nothing of it can be seen.
LEMMA PendingStage ==
  ASSUME SharedInv, NEW id, IsPending(buffer, id)
  PROVE  /\ id \in DOMAIN buffer.commits /\ CommitOf(buffer, id) = buffer.commits[id]
         /\ buffer.commits[id].update \in OwnUpdate
         /\ \A t \in Threads : ~Has(t, buffer.commits[id].update)
         /\ AppliedOf(buffer.commits[id].update) = {} /\ ~Listed(buffer.commits[id].update)
         /\ \A i : EntryOf(i, buffer.commits[id].update) => i = id
<1>1. /\ id \in DOMAIN buffer.commits /\ buffer.commits[id].status = "Pending"
      /\ CommitOf(buffer, id) = buffer.commits[id]
  BY CommitAt DEF SharedInv, BaseTypes
<1>2. PICK u : u = buffer.commits[id].update
  OBVIOUS
<1>3. u \in OwnUpdate
  <2>1. buffer.commits \in Seq(Entry)
    BY DEF SharedInv, BaseTypes, BufferTyped
  <2>2. buffer.commits[id] \in Entry
    BY <1>1, <2>1
  <2> QED
    BY <1>2, <2>2 DEF Entry
<1>4. EntryOf(id, u) /\ Stage(u)
  BY <1>1, <1>2, <1>3 DEF EntryOf, SharedInv
<1>5. \A i : EntryOf(i, u) => i \in DOMAIN buffer.commits
  BY DEF EntryOf
<1> HIDE DEF EntryOf
<1>6. \A t \in Threads : ~Has(t, u)
  BY <1>1, <1>4 DEF Stage, HeldStage
<1>7. AppliedOf(u) = {} /\ ~Listed(u)
  BY <1>1, <1>4 DEF Stage, EntryStage
<1>8. \A i : EntryOf(i, u) => i = id
  BY <1>1, <1>4, <1>5 DEF Stage, OneEntry
<1> QED
  BY <1>1, <1>2, <1>3, <1>6, <1>7, <1>8

\* confirm_speculative takes a commit from the buffer to the thread.
LEMMA ConfirmKeeps ==
  ASSUME SharedInv, NEW t \in Threads, NEW id, ConfirmSpeculative(t, id)
  PROVE  SharedInv'
<1>1. PICK u : u = buffer.commits[id].update
  OBVIOUS
<1>2. /\ id \in DOMAIN buffer.commits /\ CommitOf(buffer, id) = buffer.commits[id]
      /\ u \in OwnUpdate /\ \A x \in Threads : ~Has(x, u)
      /\ AppliedOf(u) = {} /\ ~Listed(u) /\ \A i : EntryOf(i, u) => i = id
      /\ IsPending(buffer, id)
  BY <1>1, PendingStage DEF ConfirmSpeculative
<1>3. PICK w : w = [call |-> "confirm", update |-> u]
  OBVIOUS
<1>4. /\ buffer' = Decide(buffer, id, "Confirmed") /\ Begin(t, "apply", w)
      /\ UNCHANGED <<clock, committed, applied, clockOwner>>
  BY <1>1, <1>2, <1>3 DEF ConfirmSpeculative, Confirm
<1>5. w \in Work["apply"] /\ w.call = "confirm" /\ w.update = u
  BY <1>2, <1>3 DEF Work
<1>6. /\ BufferTyped' /\ DOMAIN buffer'.commits = DOMAIN buffer.commits
      /\ \A i \in DOMAIN buffer.commits : buffer'.commits[i].update = buffer.commits[i].update
      /\ \A i \in DOMAIN buffer.commits \ {id} : buffer'.commits[i] = buffer.commits[i]
      /\ buffer'.commits[id].status = "Confirmed"
  BY <1>2, <1>4, DecideTypes DEF SharedInv, BaseTypes
<1>7. /\ ThreadsTyped' /\ calls' \in 0..MaxCalls
      /\ pc[t] = "idle" /\ pc'[t] = "apply" /\ work'[t] = w
      /\ \A x \in Threads \ {t} : pc'[x] = pc[x] /\ work'[x] = work[x]
  <2> HIDE DEF Work
  <2> QED
    BY <1>4, <1>5, ThreadBegins
<1>8. BaseTypes'
  BY <1>4, <1>6, <1>7 DEF SharedInv, BaseTypes
<1>9. ClocksHold'
  <2>1. Seen' \subseteq Seen
    BY <1>1, <1>2, <1>4, <1>5, <1>6, <1>7 DEF Seen
  <2> QED
    BY <1>4, <2>1, NothingNew DEF SharedInv
<1>10. ASSUME NEW v \in OwnUpdate PROVE Stage(v)'
  <2>1. /\ Stage(v) /\ AppliedOf(v)' = AppliedOf(v) /\ Places(v)' = Places(v)
        /\ \A i : EntryOf(i, v)' <=> EntryOf(i, v)
    BY <1>4, <1>6 DEF SharedInv, AppliedOf, Places, EntryOf
  <2>2. CASE v # u
    <3>1. ~Has(t, v) /\ ~Has(t, v)'
      BY <1>5, <1>7, <2>2 DEF Has
    <3>2. \A i : EntryOf(i, v) => buffer'.commits[i].status = buffer.commits[i].status
      BY <1>1, <1>6, <2>2 DEF EntryOf
    <3> QED
      BY <1>7, <2>1, <3>1, <3>2, SameStage
  <2>3. CASE v = u
    <3>1. \A x \in Threads : Has(x, v)' => x = t
      BY <1>2, <1>7, <2>3 DEF Has
    <3>2. \A i : EntryOf(i, v)' => i = id
      BY <1>2, <2>1, <2>3
    <3>3. /\ pc'[t] = "apply" /\ work'[t].call = "confirm" /\ Has(t, v)'
      BY <1>5, <1>7, <2>3 DEF Has
    <3>4. AppliedOf(v)' = {} /\ ~Listed(v)' /\ Places(v)' = {}
      BY <1>2, <2>1, <2>3 DEF Listed
    <3> HIDE DEF Has, AppliedOf, Places, EntryOf, Listed
    <3> QED
      BY <1>6, <3>1, <3>2, <3>3, <3>4 DEF Stage, OneThread, OneEntry, ListedOnce, HeldStage, EntryStage
  <2> QED
    BY <2>2, <2>3
<1>11. OwnUpdate' = OwnUpdate
  BY DEF OwnUpdate
<1> QED
  BY <1>8, <1>9, <1>10, <1>11 DEF SharedInv

\* rollback_speculative takes it out of play.
LEMMA RollbackKeeps ==
  ASSUME SharedInv, NEW t \in Threads, NEW id, RollbackSpeculative(t, id)
  PROVE  SharedInv'
<1>1. PICK u : u = buffer.commits[id].update
  OBVIOUS
<1>2. /\ id \in DOMAIN buffer.commits
      /\ u \in OwnUpdate /\ \A x \in Threads : ~Has(x, u)
      /\ AppliedOf(u) = {} /\ ~Listed(u) /\ \A i : EntryOf(i, u) => i = id
      /\ IsPending(buffer, id)
  BY <1>1, PendingStage DEF RollbackSpeculative
<1>3. /\ buffer' = Decide(buffer, id, "Aborted") /\ Begin(t, "idle", Idle)
      /\ UNCHANGED <<clock, committed, applied, clockOwner>>
  BY <1>2 DEF RollbackSpeculative, Rollback
<1>4. Idle \in Work["idle"]
  BY DEF Work
<1>5. /\ BufferTyped' /\ DOMAIN buffer'.commits = DOMAIN buffer.commits
      /\ \A i \in DOMAIN buffer.commits : buffer'.commits[i].update = buffer.commits[i].update
      /\ \A i \in DOMAIN buffer.commits \ {id} : buffer'.commits[i] = buffer.commits[i]
      /\ buffer'.commits[id].status = "Aborted"
  BY <1>2, <1>3, DecideTypes DEF SharedInv, BaseTypes
<1>6. /\ ThreadsTyped' /\ calls' \in 0..MaxCalls
      /\ pc[t] = "idle" /\ pc'[t] = "idle"
      /\ \A x \in Threads \ {t} : pc'[x] = pc[x] /\ work'[x] = work[x]
  <2> HIDE DEF Work
  <2> QED
    BY <1>3, <1>4, ThreadBegins
<1>7. BaseTypes'
  BY <1>3, <1>5, <1>6 DEF SharedInv, BaseTypes
<1>8. ClocksHold'
  <2>1. Seen' \subseteq Seen
    BY <1>3, <1>5, <1>6 DEF Seen
  <2> QED
    BY <1>3, <2>1, NothingNew DEF SharedInv
<1>9. ASSUME NEW v \in OwnUpdate PROVE Stage(v)'
  <2>1. /\ Stage(v) /\ AppliedOf(v)' = AppliedOf(v) /\ Places(v)' = Places(v)
        /\ \A i : EntryOf(i, v)' <=> EntryOf(i, v)
    BY <1>3, <1>5 DEF SharedInv, AppliedOf, Places, EntryOf
  <2>2. ~Has(t, v) /\ ~Has(t, v)'
    BY <1>6 DEF Has
  <2>3. CASE v # u
    <3>1. \A i : EntryOf(i, v) => buffer'.commits[i].status = buffer.commits[i].status
      BY <1>1, <1>5, <2>3 DEF EntryOf
    <3> QED
      BY <1>6, <2>1, <2>2, <3>1, SameStage
  <2>4. CASE v = u
    <3>1. \A x \in Threads : ~Has(x, v)'
      BY <1>2, <1>6, <2>4 DEF Has
    <3>2. \A i : EntryOf(i, v)' => i = id
      BY <1>2, <2>1, <2>4
    <3>3. AppliedOf(v)' = {} /\ ~Listed(v)' /\ Places(v)' = {}
      BY <1>2, <2>1, <2>4 DEF Listed
    <3> HIDE DEF Has, AppliedOf, Places, EntryOf, Listed
    <3> QED
      BY <1>5, <3>1, <3>2, <3>3 DEF Stage, OneThread, OneEntry, ListedOnce, HeldStage, EntryStage
  <2> QED
    BY <2>3, <2>4
<1>10. OwnUpdate' = OwnUpdate
  BY DEF OwnUpdate
<1> QED
  BY <1>7, <1>8, <1>9, <1>10 DEF SharedInv

\* The thread lists what it applied.
LEMMA PushKeeps ==
  ASSUME SharedInv, NEW t \in Threads, Push(t)
  PROVE  SharedInv'
<1>1. PICK u : u = work[t].update
  OBVIOUS
<1>2. /\ pc[t] = "push" /\ committed' = Append(committed, u) /\ End(t)
      /\ UNCHANGED <<clock, buffer, applied>>
  BY <1>1 DEF Push
<1>3. u \in OwnUpdate /\ Has(t, u) /\ committed \in Seq(OwnUpdate)
  BY <1>1, <1>2, WorkAt DEF SharedInv, BaseTypes, Has
<1>4. PICK n : n = Len(committed) + 1
  OBVIOUS
<1>5. /\ committed' \in Seq(OwnUpdate) /\ DOMAIN committed' = DOMAIN committed \cup {n}
      /\ n \notin DOMAIN committed /\ committed'[n] = u
      /\ \A i \in DOMAIN committed : committed'[i] = committed[i]
  BY <1>2, <1>3, <1>4
<1>6. /\ ThreadsTyped' /\ calls' \in 0..MaxCalls /\ clockOwner' \in Threads \cup {NoThread}
      /\ pc'[t] = "idle" /\ \A v : ~Has(t, v)'
      /\ \A x \in Threads \ {t} : pc'[x] = pc[x] /\ work'[x] = work[x]
  BY <1>2, ThreadEnds DEF SharedInv
<1>7. BaseTypes'
  BY <1>2, <1>5, <1>6, BufferStays DEF SharedInv, BaseTypes
<1>8. ClocksHold'
  <2>1. Seen' \subseteq Seen
    BY <1>1, <1>2, <1>5, <1>6 DEF Seen
  <2> QED
    BY <1>2, <2>1, NothingNew DEF SharedInv
<1>9. ASSUME NEW v \in OwnUpdate PROVE Stage(v)'
  <2>1. /\ Stage(v) /\ AppliedOf(v)' = AppliedOf(v)
        /\ \A i : EntryOf(i, v)' <=> EntryOf(i, v)
    BY <1>2 DEF SharedInv, AppliedOf, EntryOf
  <2>2. CASE v # u
    <3>1. ~Has(t, v)
      BY <1>1, <2>2 DEF Has
    <3>2. Places(v)' = Places(v)
      BY <1>5, <2>2 DEF Places
    <3> QED
      BY <1>2, <1>6, <2>1, <3>1, <3>2, SameStage
  <2>3. CASE v = u
    <3>1. \A x \in Threads : ~Has(x, v)'
      <4>1. \A x \in Threads : Has(x, v) => x = t
        BY <1>3, <2>1, <2>3 DEF Stage, OneThread
      <4> QED
        BY <1>6, <4>1 DEF Has
    <3>2. /\ ~Listed(v) /\ AllApplied(v)
          /\ \A i : EntryOf(i, v) => buffer.commits[i].status = "Confirmed"
      <4>1. \A i : EntryOf(i, v) => i \in DOMAIN buffer.commits
        BY DEF EntryOf
      <4> HIDE DEF Has, EntryOf
      <4> QED
        BY <1>2, <1>3, <2>1, <2>3, <4>1 DEF Stage, HeldStage
    <3>3. Places(v)' = {n}
      BY <1>5, <2>3, <3>2 DEF Listed, Places
    <3>4. AllApplied(v)' /\ Listed(v)'
      BY <2>1, <3>2, <3>3 DEF AllApplied, Listed
    <3>5. /\ \A i : EntryOf(i, v)' => buffer'.commits[i].status = "Confirmed"
          /\ OneEntry(v)'
      BY <1>2, <2>1, <3>2 DEF Stage, OneEntry
    <3> HIDE DEF Has, AppliedOf, Places, EntryOf, Listed
    <3> QED
      BY <3>1, <3>3, <3>4, <3>5 DEF Stage, OneThread, ListedOnce, HeldStage, EntryStage
  <2> QED
    BY <2>2, <2>3
<1>10. OwnUpdate' = OwnUpdate
  BY DEF OwnUpdate
<1> QED
  BY <1>7, <1>8, <1>9, <1>10 DEF SharedInv

\* The elements of a sequence and, after them, more.
LEMMA SeqGrows ==
  ASSUME NEW A, NEW a \in Seq(A), NEW N \in Nat, NEW m \in [1..N -> A]
  PROVE  /\ a \o m \in Seq(A) /\ Len(a \o m) = Len(a) + N
         /\ \A i \in 1..Len(a) : (a \o m)[i] = a[i]
         /\ \A i \in 1..N : (a \o m)[Len(a) + i] = m[i]
<1>1. m \in Seq(A) /\ Len(m) = N
  OBVIOUS
<1>2. /\ a \o m \in Seq(A) /\ Len(a \o m) = Len(a) + N
      /\ \A i \in 1..(Len(a) + N) : (a \o m)[i] = IF i <= Len(a) THEN a[i] ELSE m[i - Len(a)]
  BY <1>1, ConcatProperties
<1>3. Len(a) \in Nat
  OBVIOUS
<1> QED
  BY <1>2, <1>3

\* An interval is as large as the numbers in it.
LEMMA IntervalSize ==
  ASSUME NEW L \in Nat, NEW d \in Nat
  PROVE  Cardinality((L + 1)..(L + d)) = d
BY FS_Interval

\* What applying the first operations of an update adds to what is applied.
LEMMA AppliedGrows ==
  ASSUME applied \in Seq([update : OwnUpdate \cup RemoteUpdate, op : AlgebraicOperation]),
         NEW u \in OwnUpdate \cup RemoteUpdate, NEW d \in 0..Len(u.operations),
         applied' = applied \o [i \in 1..d |-> [update |-> u, op |-> u.operations[i]]]
  PROVE  /\ applied' \in Seq([update : OwnUpdate \cup RemoteUpdate, op : AlgebraicOperation])
         /\ \A i \in DOMAIN applied : i \in DOMAIN applied' /\ applied'[i] = applied[i]
         /\ \A i \in DOMAIN applied' \ DOMAIN applied : applied'[i].update = u
         /\ AppliedOf(u) = {} => Cardinality(AppliedOf(u)') = d
<1> DEFINE A == [update : OwnUpdate \cup RemoteUpdate, op : AlgebraicOperation]
           m == [i \in 1..d |-> [update |-> u, op |-> u.operations[i]]]
<1>1. u.operations \in Seq(AlgebraicOperation)
  BY DEF OwnUpdate, RemoteUpdate, Update
<1>2. m \in [1..d -> A] /\ d \in Nat
  <2>1. \A i \in 1..d : u.operations[i] \in AlgebraicOperation
    BY <1>1
  <2> QED
    BY <1>1, <2>1
<1>3. \A i \in 1..d : m[i].update = u
  OBVIOUS
<1>4. applied \in Seq(A) /\ applied' = applied \o m
  OBVIOUS
<1> HIDE DEF A, m
<1>5. PICK L : L = Len(applied)
  OBVIOUS
<1>6. L \in Nat /\ DOMAIN applied = 1..L
  BY <1>4, <1>5
<1>7. /\ applied' \in Seq(A) /\ DOMAIN applied' = 1..(L + d)
      /\ \A i \in 1..L : applied'[i] = applied[i]
      /\ \A i \in (L + 1)..(L + d) : applied'[i] = m[i - L]
  <2>1. PICK a, N, x, S : a = applied /\ N = d /\ x = m /\ S = A
    OBVIOUS
  <2>2. a \in Seq(S) /\ N \in Nat /\ x \in [1..N -> S]
    BY <1>2, <1>4, <2>1
  <2>3. PICK b : b = a \o x
    OBVIOUS
  <2>4. /\ b \in Seq(S) /\ Len(b) = Len(a) + N
        /\ \A i \in 1..Len(a) : b[i] = a[i]
        /\ \A i \in 1..N : b[Len(a) + i] = x[i]
    BY <2>2, <2>3, SeqGrows
  <2>5. DOMAIN b = 1..(L + d) /\ \A i \in (L + 1)..(L + d) : b[i] = m[i - L]
    <3>1. DOMAIN b = 1..(L + d)
      BY <1>5, <2>1, <2>4
    <3>2. \A i \in (L + 1)..(L + d) : i - L \in 1..d /\ i = L + (i - L)
      BY <1>2, <1>6
    <3>3. \A i \in (L + 1)..(L + d) : b[L + (i - L)] = m[i - L]
      BY <1>5, <2>1, <2>4, <3>2
    <3> QED
      BY <3>1, <3>2, <3>3
  <2> QED
    BY <1>4, <1>5, <2>1, <2>3, <2>4, <2>5
<1>8. \A i \in (L + 1)..(L + d) : applied'[i].update = u
  BY <1>2, <1>3, <1>6, <1>7
<1>9. ASSUME AppliedOf(u) = {} PROVE Cardinality(AppliedOf(u)') = d
  <2>1. AppliedOf(u)' = (L + 1)..(L + d)
    <3>1. \A i \in 1..L : applied[i].update # u
      BY <1>6, <1>9 DEF AppliedOf
    <3> QED
      BY <1>2, <1>6, <1>7, <1>8, <3>1 DEF AppliedOf
  <2> QED
    BY <1>2, <1>6, <2>1, IntervalSize
<1> QED
  BY <1>2, <1>6, <1>7, <1>8, <1>9 DEF A

\* A thread that goes on to list what it applied.
LEMMA ThreadGoesOn ==
  ASSUME BaseTypes, NEW t \in Threads, pc[t] = "apply", work[t].call # "receive",
         Goto(t, "push"), work' = work
  PROVE  /\ ThreadsTyped' /\ calls' = calls /\ pc'[t] = "push" /\ work'[t] = work[t]
         /\ \A x \in Threads \ {t} : pc'[x] = pc[x] /\ work'[x] = work[x]
<1>1. /\ pc' = [pc EXCEPT ![t] = "push"] /\ calls' = calls /\ ThreadsTyped
      /\ work' = [x \in Threads |-> work'[x]]
  BY DEF Goto, BaseTypes, ThreadsTyped
<1>2. work[t] \in Work["push"]
  <2>1. work[t] \in Work["apply"]
    BY <1>1 DEF ThreadsTyped
  <2>2. work[t] \in [call : {"commit", "confirm"}, update : OwnUpdate]
    BY <2>1 DEF Work
  <2> QED
    BY <2>2 DEF Work
<1> HIDE DEF Work
<1> QED
  BY <1>1, <1>2 DEF ThreadsTyped

\* apply_update_to_state: all operations of an update or, at an error, the
\* first ones, once.
LEMMA ApplyKeeps ==
  ASSUME SharedInv, NEW t \in Threads, Apply(t)
  PROVE  SharedInv'
<1>1. PICK u, r : u = work[t].update /\ r = ApplyUpdateToState(state, u)
  OBVIOUS
<1>2. PICK d : d = r.done
  OBVIOUS
<1>3. /\ pc[t] = "apply" /\ UNCHANGED <<clock, committed, buffer>>
      /\ applied' = applied \o [i \in 1..d |-> [update |-> u, op |-> u.operations[i]]]
      /\ \/ r.ok /\ work[t].call # "receive" /\ Goto(t, "push") /\ work' = work /\ clockOwner' = clockOwner
         \/ ~(r.ok /\ work[t].call # "receive") /\ End(t)
  BY <1>1, <1>2 DEF Apply
<1>4. \/ u \in OwnUpdate /\ work[t].call \in {"commit", "confirm"} /\ Has(t, u)
      \/ u \in RemoteUpdate /\ work[t].call = "receive"
  BY <1>1, <1>3, WorkAt DEF SharedInv, BaseTypes, Has
<1>5. /\ u.operations \in Seq(AlgebraicOperation) /\ d \in 0..Len(u.operations)
      /\ r.ok <=> d = Len(u.operations)
  <2>1. u.operations \in Seq(AlgebraicOperation)
    BY <1>4 DEF OwnUpdate, RemoteUpdate, Update
  <2> HIDE DEF AlgebraicOperation
  <2> QED
    BY <1>1, <1>2, <2>1, ApplyCounts
<1>6. /\ applied' \in Seq([update : OwnUpdate \cup RemoteUpdate, op : AlgebraicOperation])
      /\ \A i \in DOMAIN applied : i \in DOMAIN applied' /\ applied'[i] = applied[i]
      /\ \A i \in DOMAIN applied' \ DOMAIN applied : applied'[i].update = u
      /\ AppliedOf(u) = {} => Cardinality(AppliedOf(u)') = d
  BY <1>3, <1>4, <1>5, AppliedGrows DEF SharedInv, BaseTypes
<1>7. /\ ThreadsTyped' /\ calls' \in 0..MaxCalls /\ clockOwner' \in Threads \cup {NoThread}
      /\ \A x \in Threads \ {t} : pc'[x] = pc[x] /\ work'[x] = work[x]
      /\ \/ r.ok /\ work[t].call # "receive" /\ pc'[t] = "push" /\ work'[t] = work[t]
         \/ ~(r.ok /\ work[t].call # "receive") /\ pc'[t] = "idle" /\ \A v : ~Has(t, v)'
  <2>1. CASE r.ok /\ work[t].call # "receive"
    BY <1>3, <2>1, ThreadGoesOn DEF SharedInv, BaseTypes
  <2>2. CASE ~(r.ok /\ work[t].call # "receive")
    BY <1>3, <2>2, ThreadEnds DEF SharedInv
  <2> QED
    BY <2>1, <2>2
<1>8. BaseTypes'
  BY <1>3, <1>6, <1>7, BufferStays DEF SharedInv, BaseTypes
<1>9. ClocksHold'
  <2>1. u \in Seen
    BY <1>1, <1>3 DEF Seen
  <2>2. \A i \in DOMAIN applied' : applied'[i].update \in Seen \cup {u}
    BY <1>6 DEF Seen
  <2>3. \A x \in Threads : pc'[x] \in {"buffer", "apply", "push"} => work'[x].update \in Seen \cup {u}
    BY <1>1, <1>7 DEF Seen
  <2>4. \A v \in Seen' : \/ \E i \in DOMAIN applied' : v = applied'[i].update
                         \/ \E x \in Threads : /\ pc'[x] \in {"buffer", "apply", "push"}
                                               /\ v = work'[x].update
                         \/ v \in Seen
    BY <1>3 DEF Seen
  <2>5. Seen' \subseteq Seen \cup {u}
    BY <2>2, <2>3, <2>4
  <2> QED
    BY <1>3, <2>1, <2>5, NothingNew DEF SharedInv
<1>10. ASSUME NEW v \in OwnUpdate PROVE Stage(v)'
  <2>1. /\ Stage(v) /\ Places(v)' = Places(v) /\ \A i : EntryOf(i, v)' <=> EntryOf(i, v)
    BY <1>3 DEF SharedInv, Places, EntryOf
  <2>2. CASE v # u \/ work[t].call = "receive"
    <3>1. v # u /\ ~Has(t, v) /\ ~Has(t, v)'
      BY <1>1, <1>4, <1>7, <2>2 DEF Has, OwnUpdate, RemoteUpdate
    <3>2. AppliedOf(v)' = AppliedOf(v)
      BY <1>6, <3>1 DEF AppliedOf
    <3> QED
      BY <1>3, <1>7, <2>1, <3>1, <3>2, SameStage
  <2>3. CASE v = u /\ work[t].call # "receive"
    <3>1. \A x \in Threads : Has(x, v)' => x = t /\ pc'[t] = "push" /\ work'[t] = work[t]
      <4>1. \A x \in Threads : Has(x, v) => x = t
        BY <1>4, <2>1, <2>3 DEF Stage, OneThread
      <4> QED
        BY <1>7, <4>1 DEF Has
    <3>2. /\ ~Listed(v) /\ AppliedOf(v) = {}
          /\ \A i : EntryOf(i, v) => work[t].call = "confirm" /\ buffer.commits[i].status = "Confirmed"
      <4>1. Has(t, v) /\ pc[t] # "push"
        BY <1>3, <1>4, <2>3
      <4>2. \A i : EntryOf(i, v) => i \in DOMAIN buffer.commits
        BY DEF EntryOf
      <4> HIDE DEF Has, EntryOf
      <4> QED
        BY <2>1, <4>1, <4>2 DEF Stage, HeldStage
    <3>3. AllApplied(v)' <=> r.ok
      BY <1>5, <1>6, <2>3, <3>2 DEF AllApplied
    <3>4. ~Listed(v)' /\ Places(v)' = {}
      BY <2>1, <3>2 DEF Listed
    <3>5. Has(t, v)' => r.ok
      BY <1>7
    <3>6. /\ OneEntry(v)'
          /\ \A i : EntryOf(i, v)' => work[t].call = "confirm" /\ buffer'.commits[i].status = "Confirmed"
      BY <1>3, <2>1, <3>2 DEF Stage, OneEntry
    <3>7. r.ok => Has(t, v)'
      BY <1>1, <1>7, <2>3 DEF Has
    <3> HIDE DEF Has, AppliedOf, AllApplied, Places, EntryOf, Listed
    <3>8. OneThread(v)' /\ ListedOnce(v)'
      BY <3>1, <3>4 DEF OneThread, ListedOnce
    <3>9. HeldStage(v)'
      BY <3>1, <3>3, <3>4, <3>5, <3>6 DEF HeldStage
    <3>10. EntryStage(v)'
      BY <3>3, <3>4, <3>6, <3>7 DEF EntryStage
    <3> QED
      BY <3>6, <3>8, <3>9, <3>10 DEF Stage
  <2> QED
    BY <2>2, <2>3
<1>11. OwnUpdate' = OwnUpdate
  BY DEF OwnUpdate
<1> QED
  BY <1>8, <1>9, <1>10, <1>11 DEF SharedInv

\* Every step of every thread preserves the invariant.
LEMMA SharedNext ==
  ASSUME SharedInv, [Next]_vars
  PROVE  SharedInv'
<1>1. ASSUME NEW t \in Threads, TakeTick(t) PROVE SharedInv'
  BY <1>1, TakeTickKeeps
<1>2. ASSUME NEW t \in Threads, Speculate(t) PROVE SharedInv'
  BY <1>2, SpeculateKeeps
<1>3. ASSUME NEW t \in Threads, Apply(t) PROVE SharedInv'
  BY <1>3, ApplyKeeps
<1>4. ASSUME NEW t \in Threads, Push(t) PROVE SharedInv'
  BY <1>4, PushKeeps
<1>5. ASSUME NEW t \in Threads, NEW tx \in Transactions, BeginCommit(t, tx) PROVE SharedInv'
  BY <1>5, BeginCommitKeeps
<1>6. ASSUME NEW t \in Threads, NEW tx \in Transactions, BeginSpeculation(t, tx) PROVE SharedInv'
  BY <1>6, BeginSpeculationKeeps
<1>7. ASSUME NEW t \in Threads, NEW u \in RemoteUpdates, BeginReceive(t, u) PROVE SharedInv'
  BY <1>7, BeginReceiveKeeps
<1>8. ASSUME NEW t \in Threads, NEW id, ConfirmSpeculative(t, id) PROVE SharedInv'
  BY <1>8, ConfirmKeeps
<1>9. ASSUME NEW t \in Threads, NEW id, RollbackSpeculative(t, id) PROVE SharedInv'
  BY <1>9, RollbackKeeps
<1>10. ASSUME NEW t \in Threads, UseEscrow(t) PROVE SharedInv'
  BY <1>10, UseEscrowKeeps
<1>11. ASSUME UNCHANGED vars PROVE SharedInv'
  <2>1. /\ clock' = clock /\ committed' = committed /\ applied' = applied /\ buffer' = buffer
        /\ pc' = pc /\ work' = work /\ clockOwner' = clockOwner /\ calls' = calls
    BY <1>11 DEF vars
  <2>2. BaseTypes'
    BY <2>1, BufferStays DEF SharedInv, BaseTypes, ThreadsTyped
  <2>3. ClocksHold'
    <3>1. Seen' = Seen
      BY <2>1 DEF Seen
    <3> QED
      BY <2>1, <3>1, NothingNew DEF SharedInv
  <2>4. ASSUME NEW u \in OwnUpdate PROVE Stage(u)'
    <3>1. /\ AppliedOf(u)' = AppliedOf(u) /\ Places(u)' = Places(u)
          /\ \A i : EntryOf(i, u)' <=> EntryOf(i, u)
          /\ \A x : Has(x, u)' <=> Has(x, u)
      BY <2>1 DEF AppliedOf, Places, EntryOf, Has
    <3>2. /\ AllApplied(u)' <=> AllApplied(u)
          /\ Listed(u)' <=> Listed(u)
      BY <3>1 DEF AllApplied, Listed
    <3> HIDE DEF AppliedOf, Places, EntryOf, Has, AllApplied, Listed
    <3> QED
      BY <2>1, <3>1, <3>2 DEF SharedInv, Stage, OneThread, OneEntry, ListedOnce, HeldStage, EntryStage
  <2>5. OwnUpdate' = OwnUpdate
    BY DEF OwnUpdate
  <2> QED
    BY <2>2, <2>3, <2>4, <2>5 DEF SharedInv
<1> QED
  BY <1>1, <1>2, <1>3, <1>4, <1>5, <1>6, <1>7, <1>8, <1>9, <1>10, <1>11 DEF Next, Step

-----------------------------------------------------------------------------
(* What follows for commits *)

\* The visibility invariant of speculative.rs: nothing of a commit that is
\* pending, or was rolled back, has reached the state that reads see, nor the
\* list of what is committed.
THEOREM SpeculationHidden == Spec => []SpeculationInvisible
<1>1. SharedInv => SpeculationInvisible
  <2> SUFFICES ASSUME SharedInv, NEW j \in DOMAIN buffer.commits,
                      buffer.commits[j].status \in {"Pending", "Aborted"},
                      NEW u, u = buffer.commits[j].update
               PROVE  AppliedOf(u) = {} /\ \A i \in DOMAIN committed : committed[i] # u
    BY DEF SpeculationInvisible, CommitsWith
  <2>1. u \in OwnUpdate /\ EntryOf(j, u)
    <3>1. buffer.commits \in Seq(Entry)
      BY DEF SharedInv, BaseTypes, BufferTyped
    <3>2. buffer.commits[j] \in Entry
      BY <3>1
    <3> QED
      BY <3>2 DEF Entry, EntryOf
  <2>2. AppliedOf(u) = {} /\ ~Listed(u)
    BY <2>1 DEF SharedInv, Stage, EntryStage
  <2> QED
    BY <2>2 DEF Listed, Places
<1> QED
  BY <1>1, SharedBegins, SharedNext, PTL DEF Spec

\* confirm_speculative, rollback_speculative, commit_local and their errors may
\* race: an update of this node is listed once, and just when every operation of
\* it was merged, once.
THEOREM CommitsOnce == Spec => [](CommittedOnce /\ ConfirmedIsCommitted)
<1>1. ASSUME SharedInv PROVE CommittedOnce
  <2> SUFFICES ASSUME NEW i \in DOMAIN committed
               PROVE  /\ AllApplied(committed[i])
                      /\ \A j \in DOMAIN committed : committed[i] = committed[j] => i = j
    BY DEF CommittedOnce
  <2>1. committed[i] \in OwnUpdate
    BY <1>1 DEF SharedInv, BaseTypes
  <2>2. ListedOnce(committed[i])
    BY <1>1, <2>1 DEF SharedInv, Stage
  <2>3. i \in Places(committed[i]) /\ \A j \in DOMAIN committed :
          committed[i] = committed[j] => j \in Places(committed[i])
    BY DEF Places
  <2> QED
    BY <2>2, <2>3 DEF ListedOnce, Listed
<1>2. ASSUME SharedInv PROVE ConfirmedIsCommitted
  <2> SUFFICES ASSUME NEW j \in DOMAIN buffer.commits, buffer.commits[j].status = "Confirmed",
                      NEW u, u = buffer.commits[j].update,
                      \A t \in Threads : work[t].call = "confirm" => work[t].update # u
               PROVE  AllApplied(u) <=> \E i \in DOMAIN committed : committed[i] = u
    BY DEF ConfirmedIsCommitted, CommitsWith
  <2>1. u \in OwnUpdate /\ EntryOf(j, u)
    <3>1. buffer.commits \in Seq(Entry)
      BY <1>2 DEF SharedInv, BaseTypes, BufferTyped
    <3>2. buffer.commits[j] \in Entry
      BY <3>1
    <3> QED
      BY <3>2 DEF Entry, EntryOf
  <2>2. Stage(u)
    BY <1>2, <2>1 DEF SharedInv
  <2>3. \A t \in Threads : ~Has(t, u)
    BY <2>1, <2>2 DEF Stage, HeldStage, Has
  <2>4. AllApplied(u) <=> Listed(u)
    BY <2>1, <2>2, <2>3 DEF Stage, EntryStage
  <2>5. Listed(u) <=> \E i \in DOMAIN committed : committed[i] = u
    BY DEF Listed, Places
  <2> QED
    BY <2>4, <2>5
<1> QED
  BY <1>1, <1>2, SharedBegins, SharedNext, PTL DEF Spec

-----------------------------------------------------------------------------
(* The types of the escrow and the state *)

\* The types of the escrow do not depend on what callers ask for.
LEMMA EscrowTypesStep ==
  ASSUME EscrowTypeOK, [EscrowNext]_escrowVars
  PROVE  EscrowTypeOK'
<1> DEFINE R == [available : Int, allocated : Int, total : Int, consumed : Nat,
                 replenished : Int, local : Nat, coordination : Nat]
<1>1. ASSUME NEW r \in Resources, NEW total \in Int, NEW quota \in Int, Register(r, total, quota)
      PROVE  EscrowTypeOK'
  <2>1. NewResource(total, quota) \in R
    BY DEF NewResource
  <2>2. /\ DOMAIN escrow' = DOMAIN escrow \cup {r} /\ escrow'[r] = NewResource(total, quota)
        /\ \A s \in DOMAIN escrow \ {r} : escrow'[s] = escrow[s]
        /\ escrow' = [s \in DOMAIN escrow' |-> escrow'[s]]
        /\ granted' = [granted EXCEPT ![r] = quota]
    BY <1>1 DEF Register
  <2> HIDE DEF R
  <2> QED
    BY <2>1, <2>2 DEF EscrowTypeOK, R
<1>2. ASSUME NEW r \in Resources, NEW amount \in Int, TryConsume(r, amount)
      PROVE  EscrowTypeOK'
  <2>1. /\ r \in DOMAIN escrow /\ DOMAIN escrow' = DOMAIN escrow /\ granted' = granted
        /\ \A s \in DOMAIN escrow \ {r} : escrow'[s] = escrow[s]
        /\ escrow' = [s \in DOMAIN escrow' |-> escrow'[s]]
        /\ escrow[r] \in R /\ amount > 0
        /\ \/ escrow'[r] = [escrow[r] EXCEPT !.coordination = @ + 1]
           \/ escrow'[r] = [escrow[r] EXCEPT !.available = @ - amount, !.consumed = @ + amount,
                                             !.local = @ + 1]
    BY <1>2 DEF TryConsume, EscrowTypeOK
  <2>2. /\ escrow[r].available - amount \in Int /\ escrow[r].consumed + amount \in Nat
        /\ escrow[r].local + 1 \in Nat /\ escrow[r].coordination + 1 \in Nat
    BY <2>1
  <2>3. escrow'[r] \in R
    <3>1. CASE escrow'[r] = [escrow[r] EXCEPT !.coordination = @ + 1]
      BY <2>1, <2>2, <3>1
    <3>2. CASE escrow'[r] = [escrow[r] EXCEPT !.available = @ - amount, !.consumed = @ + amount,
                                              !.local = @ + 1]
      BY <2>1, <2>2, <3>2
    <3> QED
      BY <2>1, <3>1, <3>2
  <2> QED
    BY <2>1, <2>3 DEF EscrowTypeOK
<1>3. ASSUME NEW r \in Resources, NEW amount \in Int, Replenish(r, amount)
      PROVE  EscrowTypeOK'
  <2> DEFINE left == IF amount <= escrow[r].allocated THEN amount ELSE escrow[r].allocated
  <2>1. /\ r \in DOMAIN escrow /\ DOMAIN escrow' = DOMAIN escrow
        /\ granted' = [granted EXCEPT ![r] = @ + amount]
        /\ \A s \in DOMAIN escrow \ {r} : escrow'[s] = escrow[s]
        /\ escrow' = [s \in DOMAIN escrow' |-> escrow'[s]]
        /\ escrow'[r] = [escrow[r] EXCEPT !.available = left, !.replenished = @ + amount]
        /\ escrow[r] \in R
    BY <1>3 DEF Replenish, EscrowTypeOK
  <2>2. left \in Int /\ escrow[r].replenished + amount \in Int
    BY <2>1
  <2> HIDE DEF left
  <2>3. escrow'[r] \in R
    BY <2>1, <2>2
  <2>4. granted' \in [Resources -> Int]
    BY <2>1 DEF EscrowTypeOK
  <2> HIDE DEF R
  <2> QED
    BY <2>1, <2>3, <2>4 DEF EscrowTypeOK, R
<1>4. ASSUME ResizeQuotas PROVE EscrowTypeOK'
  <2>1. PICK quota \in [DOMAIN escrow -> OptimalQuotas] :
          escrow' = [r \in DOMAIN escrow |-> [escrow[r] EXCEPT !.allocated = quota[r]]]
    BY <1>4 DEF ResizeQuotas
  <2>2. ASSUME NEW r \in DOMAIN escrow PROVE escrow'[r] \in R
    BY <2>1, QuotaBounds DEF EscrowTypeOK
  <2> QED
    BY <1>4, <2>1, <2>2 DEF ResizeQuotas, EscrowTypeOK
<1>5. CASE UNCHANGED escrowVars
  BY <1>5 DEF escrowVars, EscrowTypeOK
<1> QED
  BY <1>1, <1>2, <1>3, <1>4, <1>5, QuotaBounds, EscrowAssumption DEF EscrowNext, RegisterAuto

\* An escrow without resources has the types.
LEMMA EscrowTypesBegin == EscrowInit => EscrowTypeOK
BY DEF EscrowInit, EscrowTypeOK

\* What is merged stays a state.
LEMMA StateStep ==
  ASSUME FloatsRound, state \in States, SharedInv, [Next]_vars
  PROVE  state' \in States
<1>1. ASSUME NEW t \in Threads, Apply(t) PROVE state' \in States
  <2>1. state' = ApplyUpdateToState(state, work[t].update).state /\ pc[t] = "apply"
    BY <1>1 DEF Apply
  <2>2. work[t].update \in OwnUpdate \cup RemoteUpdate
    BY <2>1, WorkAt DEF SharedInv, BaseTypes
  <2>3. work[t].update.operations \in Seq(AlgebraicOperation)
    BY <2>2 DEF OwnUpdate, RemoteUpdate, Update
  <2> HIDE DEF AlgebraicOperation, States
  <2> QED
    BY <2>1, <2>3, ApplyTypes
<1>2. ASSUME [Next]_vars, \A t \in Threads : ~Apply(t) PROVE state' = state
  BY <1>2 DEF Next, Step, TakeTick, Speculate, Push, BeginCommit, BeginSpeculation, BeginReceive,
     ConfirmSpeculative, RollbackSpeculative, UseEscrow, vars, managerVars
<1> QED
  BY <1>1, <1>2

\* The types of the variables.
LEMMA SharedTypes ==
  ASSUME SharedInv, EscrowTypeOK, state \in States
  PROVE  TypeOK
<1>1. IsClock(clock) /\ IsState(state)
  BY ClocksAreClocks, StatesAreStates DEF SharedInv, BaseTypes
<1>2. \A i \in DOMAIN committed : IsUpdate(committed[i])
  <2>1. \A i \in DOMAIN committed : committed[i] \in OwnUpdate
    BY DEF SharedInv, BaseTypes
  <2> QED
    BY <2>1, UpdatesAreUpdates DEF OwnUpdate
<1>3. /\ \A i \in DOMAIN buffer.commits :
           /\ buffer.commits[i].id = i /\ buffer.commits[i].status \in SpeculativeStatus
           /\ IsUpdate(buffer.commits[i].update) /\ buffer.commits[i].probability \in 0..One
      /\ buffer.nextId = Len(buffer.commits) + 1
  <2>1. buffer.commits \in Seq(Entry) /\ BufferTyped
    BY DEF SharedInv, BaseTypes, BufferTyped
  <2>2. \A i \in DOMAIN buffer.commits : buffer.commits[i] \in Entry
    BY <2>1
  <2>3. \A i \in DOMAIN buffer.commits : buffer.commits[i].update \in Update
    BY <2>2 DEF Entry, OwnUpdate
  <2> QED
    BY <2>1, <2>2, <2>3, UpdatesAreUpdates DEF Entry, BufferTyped
<1>4. \A k \in DOMAIN buffer.tracker.probability : buffer.tracker.probability[k] \in 0..One
  <2>1. buffer.tracker \in Tracker
    BY DEF SharedInv, BaseTypes, BufferTyped
  <2> QED
    BY <2>1 DEF Tracker
<1> QED
  BY <1>1, <1>2, <1>3, <1>4 DEF TypeOK, SharedInv, BaseTypes, ThreadsTyped

\* No clock of what is applied is ahead of the clock of the manager.
LEMMA SharedClock == SharedInv => ClockCoversState
<1> SUFFICES ASSUME SharedInv, NEW i \in DOMAIN applied PROVE ~Below(clock, applied[i].update.clock)
  BY DEF ClockCoversState
<1>1. PICK u : u = applied[i].update
  OBVIOUS
<1>2. u \in Seen
  BY <1>1 DEF Seen
<1>3. u \in Update /\ Covers(clock, u.clock)
  BY <1>2 DEF SharedInv, ClocksHold, OwnUpdate, RemoteUpdate
<1>4. IsClock(clock) /\ IsClock(u.clock)
  BY <1>3, ClocksAreClocks DEF Update, SharedInv, BaseTypes
<1> QED
  BY <1>1, <1>3, <1>4, NotBelow

\* The own ticks of the updates of this node are different, and taken.
LEMMA SharedTicks == SharedInv => TicksIdentifyCommits
<1> SUFFICES ASSUME SharedInv PROVE TicksIdentifyCommits
  OBVIOUS
<1>1. ASSUME NEW u \in OwnUpdates PROVE u \in Seen /\ u \in OwnUpdate
  <2>1. CASE \E i \in DOMAIN applied : u = applied[i].update /\ u.origin = <<Self>>
    <3>1. u \in Seen
      BY <2>1 DEF Seen
    <3>2. u \in OwnUpdate \cup RemoteUpdate
      BY <3>1 DEF SharedInv, ClocksHold
    <3> QED
      BY <2>1, <3>1, <3>2 DEF RemoteUpdate
  <2>2. CASE \E i \in DOMAIN buffer.commits : u = buffer.commits[i].update
    <3>1. PICK i \in DOMAIN buffer.commits : u = buffer.commits[i].update
      BY <2>2
    <3>2. buffer.commits \in Seq(Entry)
      BY DEF SharedInv, BaseTypes, BufferTyped
    <3>3. buffer.commits[i] \in Entry
      BY <3>2
    <3> QED
      BY <3>1, <3>3 DEF Entry, Seen
  <2>3. CASE \E t \in Threads : /\ u = work[t].update /\ "update" \in DOMAIN work[t]
                                /\ work[t].call # "receive"
    <3>1. PICK t \in Threads : /\ u = work[t].update /\ "update" \in DOMAIN work[t]
                               /\ work[t].call # "receive"
      BY <2>3
    <3>2. pc[t] \in {"buffer", "apply", "push"} /\ u \in OwnUpdate
      BY <3>1, WorkAt DEF SharedInv, BaseTypes
    <3> QED
      BY <3>1, <3>2 DEF Seen
  <2> QED
    BY <2>1, <2>2, <2>3 DEF OwnUpdates
<1>2. ASSUME NEW u \in OwnUpdates PROVE Time(u.clock, Self) \in 1..Time(clock, Self)
  <2>1. u \in Update /\ Covers(clock, u.clock) /\ Time(u.clock, Self) >= 1
    BY <1>1 DEF SharedInv, ClocksHold, OwnUpdate
  <2>2. IsClock(clock) /\ IsClock(u.clock)
    BY <2>1, ClocksAreClocks DEF Update, SharedInv, BaseTypes
  <2>3. Time(u.clock, Self) \in Nat /\ Time(clock, Self) \in Nat
    BY <2>2, TimeType
  <2> QED
    BY <2>1, <2>3, ManagerAssumption DEF Covers
<1> QED
  BY <1>1, <1>2 DEF TicksIdentifyCommits, SharedInv, ClocksHold

\* The clock of the manager, for any number of threads: it covers what is
\* visible, so a commit that starts is ordered after it, and every commit of
\* this node has a tick of its own (commit_local, receive_update).
THEOREM ManagerCorrect ==
  ASSUME FloatsRound
  PROVE  Spec => []ManagerInv
<1> DEFINE Inv == SharedInv /\ EscrowTypeOK /\ state \in States
<1>1. Init => Inv
  BY SharedBegins, EscrowTypesBegin, StatesAreStates DEF Init
<1>2. Inv /\ [Next]_vars => Inv'
  <2>1. [Next]_vars => [EscrowNext]_escrowVars
    BY DEF Next, Step, TakeTick, Speculate, Apply, Push, BeginCommit, BeginSpeculation, BeginReceive,
       ConfirmSpeculative, RollbackSpeculative, UseEscrow, vars, escrowVars
  <2>2. States' = States
    BY DEF States
  <2> QED
    BY <2>1, <2>2, SharedNext, EscrowTypesStep, StateStep
<1>3. Inv => ManagerInv
  BY SharedTypes, SharedClock, SharedTicks DEF ManagerInv
<1> QED
  BY <1>1, <1>2, <1>3, PTL DEF Spec

-----------------------------------------------------------------------------
(* What is pending *)

\* The threads that read the buffer and have not added to it yet.
Speculating == {t \in Threads : pc[t] \in {"tick", "buffer"} /\ work[t].call = "speculate"}
LimitInv == Len(buffer.commits) + Cardinality(Speculating) <= MaxPending + Cardinality(Threads) - 1

\* Fewer threads, and no more commits.
LEMMA FewerSpeculate ==
  ASSUME IsFiniteSet(Threads), SharedInv, LimitInv, Speculating' \subseteq Speculating,
         Len(buffer'.commits) = Len(buffer.commits)
  PROVE  LimitInv'
<1>1. PICK A, B : A = Speculating /\ B = Speculating'
  OBVIOUS
<1>2. A \in SUBSET Threads /\ B \in SUBSET A
  BY <1>1 DEF Speculating
<1>3. IsFiniteSet(A)
  BY <1>2, FS_Subset
<1>4. Cardinality(A) \in Nat /\ IsFiniteSet(B) /\ Cardinality(B) <= Cardinality(A)
  BY <1>2, <1>3, FS_Subset, FS_CardinalityType
<1>5. Cardinality(B) \in Nat /\ Cardinality(Threads) \in Nat /\ MaxPending \in Nat
  BY <1>4, FS_CardinalityType, SpeculationAssumption
<1>6. Len(buffer.commits) \in Nat
  BY DEF SharedInv, BaseTypes, BufferTyped
<1> QED
  BY <1>1, <1>4, <1>5, <1>6 DEF LimitInv

\* A thread that speculates read a buffer that had room: the commits and the
\* threads that read before it filled are within the limit.
LEMMA LimitStep ==
  ASSUME IsFiniteSet(Threads), SharedInv, LimitInv, [Next]_vars
  PROVE  LimitInv'
<1>1. /\ pc \in [Threads -> {"idle", "tick", "buffer", "apply", "push"}]
      /\ work = [t \in Threads |-> work[t]] /\ BufferTyped
  BY DEF SharedInv, BaseTypes, ThreadsTyped
<1>2. /\ Len(buffer.commits) \in Nat /\ MaxPending \in Nat /\ Cardinality(Threads) \in Nat
  BY <1>1, FS_CardinalityType, SpeculationAssumption DEF BufferTyped
<1>3. ASSUME NEW t \in Threads, NEW tx, BeginSpeculation(t, tx) PROVE LimitInv'
  <2>1. /\ buffer' = buffer /\ pc' = [pc EXCEPT ![t] = "tick"]
        /\ work' = [work EXCEPT ![t] =
             [call |-> IF ShouldSpeculate(buffer, KeysOf(tx)) THEN "speculate" ELSE "commit", tx |-> tx]]
    BY <1>3 DEF BeginSpeculation, Begin, managerVars
  <2>2. CASE ShouldSpeculate(buffer, KeysOf(tx))
    <3>1. Len(buffer.commits) < MaxPending
      BY <2>2 DEF ShouldSpeculate
    <3>2. PICK B : B = Speculating'
      OBVIOUS
    <3>3. B \in SUBSET Threads
      BY <3>2 DEF Speculating
    <3>4. Cardinality(B) \in Nat /\ Cardinality(B) <= Cardinality(Threads)
      BY <3>3, FS_Subset, FS_CardinalityType
    <3> QED
      BY <1>2, <2>1, <3>1, <3>2, <3>4 DEF LimitInv
  <2>3. CASE ~ShouldSpeculate(buffer, KeysOf(tx))
    <3>1. work'[t].call = "commit" /\ \A x \in Threads \ {t} : pc'[x] = pc[x] /\ work'[x] = work[x]
      BY <1>1, <2>1, <2>3
    <3>2. Speculating' \subseteq Speculating
      BY <3>1 DEF Speculating
    <3> QED
      BY <2>1, <3>2, FewerSpeculate
  <2> QED
    BY <2>2, <2>3
<1>4. ASSUME NEW t \in Threads, Speculate(t) PROVE LimitInv'
  <2>1. /\ pc[t] = "buffer" /\ buffer' = AddSpeculative(buffer, work[t].update)
        /\ pc' = [pc EXCEPT ![t] = "idle"] /\ work' = [work EXCEPT ![t] = Idle]
    BY <1>4 DEF Speculate, End
  <2>2. work[t].update \in OwnUpdate /\ work[t].call = "speculate"
    BY <2>1, WorkAt DEF SharedInv, BaseTypes
  <2>3. Len(buffer'.commits) = Len(buffer.commits) + 1
    BY <1>1, <2>1, <2>2, AddTypes
  <2>4. PICK A, B : A = Speculating /\ B = Speculating'
    OBVIOUS
  <2>5. t \in A /\ A \in SUBSET Threads /\ B = A \ {t}
    BY <1>1, <2>1, <2>2, <2>4 DEF Speculating
  <2>6. IsFiniteSet(A)
    BY <2>5, FS_Subset
  <2>7. Cardinality(A) \in Nat /\ Cardinality(B) = Cardinality(A) - 1
    BY <2>5, <2>6, FS_RemoveElement, FS_CardinalityType
  <2> QED
    BY <1>2, <2>3, <2>4, <2>7 DEF LimitInv
<1>5. ASSUME NEW t \in Threads, NEW id, IsPending(buffer, id), NEW status \in {"Confirmed", "Aborted"},
             buffer' = Decide(buffer, id, status), NEW next \in {"idle", "apply"}, NEW w, Begin(t, next, w)
      PROVE  LimitInv'
  <2>1. Len(buffer'.commits) = Len(buffer.commits)
    BY <1>1, <1>5, DecideTypes
  <2>2. Speculating' \subseteq Speculating
    BY <1>1, <1>5 DEF Speculating, Begin
  <2> QED
    BY <2>1, <2>2, FewerSpeculate
<1>6. ASSUME NEW t \in Threads, buffer' = buffer,
             \A x \in Threads \ {t} : pc'[x] = pc[x] /\ work'[x] = work[x],
             pc'[t] \in {"tick", "buffer"} /\ work'[t].call = "speculate" => t \in Speculating
      PROVE  LimitInv'
  <2>1. Speculating' \subseteq Speculating
    BY <1>6 DEF Speculating
  <2> QED
    BY <1>6, <2>1, FewerSpeculate
<1>7. ASSUME NEW t \in Threads, TakeTick(t) PROVE LimitInv'
  <2>1. /\ pc[t] = "tick" /\ buffer' = buffer /\ work'[t].call = work[t].call
        /\ \A x \in Threads \ {t} : pc'[x] = pc[x] /\ work'[x] = work[x]
    BY <1>1, <1>7 DEF TakeTick, Goto
  <2> QED
    BY <1>6, <2>1 DEF Speculating
<1>8. ASSUME NEW t \in Threads, Apply(t) \/ Push(t) PROVE LimitInv'
  <2>1. /\ buffer' = buffer /\ pc'[t] \in {"push", "idle"}
        /\ \A x \in Threads \ {t} : pc'[x] = pc[x] /\ work'[x] = work[x]
    BY <1>1, <1>8 DEF Apply, Push, Goto, End
  <2> QED
    BY <1>6, <2>1
<1>9. ASSUME NEW t \in Threads, NEW next \in {"idle", "apply"}, NEW w, Begin(t, next, w), buffer' = buffer
      PROVE  LimitInv'
  <2>1. /\ pc'[t] = next /\ \A x \in Threads \ {t} : pc'[x] = pc[x] /\ work'[x] = work[x]
    BY <1>1, <1>9 DEF Begin
  <2> QED
    BY <1>6, <1>9, <2>1
<1>10. ASSUME NEW t \in Threads, NEW tx, BeginCommit(t, tx) PROVE LimitInv'
  BY <1>9, <1>10 DEF BeginCommit
<1>11. ASSUME NEW t \in Threads, NEW u, BeginReceive(t, u) PROVE LimitInv'
  BY <1>9, <1>11 DEF BeginReceive
<1>12. ASSUME NEW t \in Threads, UseEscrow(t) PROVE LimitInv'
  BY <1>9, <1>12 DEF UseEscrow, managerVars
<1>13. ASSUME NEW t \in Threads, NEW id, ConfirmSpeculative(t, id) PROVE LimitInv'
  BY <1>5, <1>13 DEF ConfirmSpeculative, Confirm
<1>14. ASSUME NEW t \in Threads, NEW id, RollbackSpeculative(t, id) PROVE LimitInv'
  BY <1>5, <1>14 DEF RollbackSpeculative, Rollback
<1>15. ASSUME UNCHANGED vars PROVE LimitInv'
  <2>1. buffer' = buffer /\ pc' = pc /\ work' = work
    BY <1>15 DEF vars
  <2>2. Speculating' = Speculating
    BY <2>1 DEF Speculating
  <2> QED
    BY <2>1, <2>2, FewerSpeculate
<1> QED
  BY <1>3, <1>4, <1>7, <1>8, <1>10, <1>11, <1>12, <1>13, <1>14, <1>15 DEF Next, Step

\* With no commits, the limit holds if there is a thread.
LEMMA LimitBegins ==
  ASSUME IsFiniteSet(Threads), Threads # {}, Init
  PROVE  LimitInv
<1>1. buffer.commits = <<>> /\ Speculating = {}
  BY DEF Init, NewBuffer, Speculating
<1>2. Cardinality(Threads) \in Nat \ {0} /\ Cardinality({}) = 0 /\ MaxPending \in Nat
  BY FS_EmptySet, FS_CardinalityType, SpeculationAssumption
<1> QED
  BY <1>1, <1>2 DEF LimitInv

\* The pending commits are some of the commits.
LEMMA LimitBounds ==
  ASSUME IsFiniteSet(Threads), SharedInv, LimitInv
  PROVE  PendingNearLimit
<1>1. PICK N \in Nat : N = Len(buffer.commits) /\ DOMAIN buffer.commits = 1..N
  BY DEF SharedInv, BaseTypes, BufferTyped
<1>2. PICK P : P = PendingIds(buffer)
  OBVIOUS
<1>3. P \in SUBSET (1..N)
  BY <1>1, <1>2 DEF PendingIds, SharedInv, BaseTypes, BufferTyped
<1>4. IsFiniteSet(1..N) /\ Cardinality(1..N) = N
  BY FS_Interval
<1>5. Cardinality(P) <= N /\ Cardinality(P) \in Nat
  BY <1>3, <1>4, FS_Subset, FS_CardinalityType
<1>6. PICK A : A = Speculating
  OBVIOUS
<1>7. Cardinality(A) \in Nat
  <2>1. A \in SUBSET Threads
    BY <1>6 DEF Speculating
  <2> QED
    BY <2>1, FS_Subset, FS_CardinalityType
<1>8. Cardinality(Threads) \in Nat /\ MaxPending \in Nat
  BY FS_CardinalityType, SpeculationAssumption
<1> QED
  BY <1>1, <1>2, <1>5, <1>6, <1>7, <1>8 DEF LimitInv, PendingNearLimit, PendingCount

\* Transactions that use a key once.
KeysOnce ==
  \A tx \in Transactions : \A i, j \in DOMAIN tx : tx[i].key = tx[j].key => i = j

\* A commit whose keys the state has not got merges as it is.
LEMMA ClearedMerges ==
  ASSUME FloatsRound, KeysOnce, SharedInv, state \in States
  PROVE  ClearedCanConfirm
<1> SUFFICES ASSUME NEW id \in PendingIds(buffer), ~CheckPendingConflicts[id]
             PROVE  ApplyUpdateToState(state, CommitOf(buffer, id).update).ok
  BY DEF ClearedCanConfirm
<1>1. IsPending(buffer, id)
  BY DEF PendingIds, IsPending
<1>2. PICK u : u = CommitOf(buffer, id).update
  OBVIOUS
<1>3. u \in OwnUpdate
  BY <1>1, <1>2, PendingStage
<1>4. KeysOf(u.operations) \cap DOMAIN state = {}
  <2>1. ~CheckConflict(buffer, id, DOMAIN state)
    BY DEF CheckPendingConflicts
  <2> QED
    BY <1>1, <1>2, <2>1 DEF CheckConflict, IsPending
<1>5. /\ u.operations \in Seq(AlgebraicOperation)
      /\ \A i, j \in DOMAIN u.operations : u.operations[i].key = u.operations[j].key => i = j
  BY <1>3 DEF OwnUpdate, Update, KeysOnce
<1> HIDE DEF AlgebraicOperation, States
<1> QED
  BY <1>2, <1>4, <1>5, FreshKeysMerge

\* Speculation exceeds max_pending_commits by the threads that race at most, and
\* a commit that check_pending_conflicts clears can be confirmed: for finitely
\* many threads, and transactions that use a key once (two operations on one key
\* may refuse to merge with each other, which the check does not look at).
THEOREM PendingDecided ==
  ASSUME IsFiniteSet(Threads), Threads # {}, FloatsRound, KeysOnce
  PROVE  Spec => []PendingCanBeDecided
<1> DEFINE Inv == SharedInv /\ LimitInv /\ state \in States
<1>1. Init => Inv
  BY SharedBegins, LimitBegins, StatesAreStates DEF Init
<1>2. Inv /\ [Next]_vars => Inv'
  <2>1. States' = States
    BY DEF States
  <2> QED
    BY <2>1, SharedNext, LimitStep, StateStep
<1>3. Inv => PendingCanBeDecided
  BY LimitBounds, ClearedMerges DEF PendingCanBeDecided
<1> QED
  BY <1>1, <1>2, <1>3, PTL DEF Spec

-----------------------------------------------------------------------------
(* What is visible of the operations that were merged *)

\* The operations on key k among those applied.
OnKey(a, k) == [i \in {j \in DOMAIN a : a[j].op.key = k} |-> a[i].op]
StateFollows(s, a) == \A k \in Keys : KeyHolds(s, k, OnKey(a, k))

\* One operation more.
LEMMA OneApplied ==
  ASSUME NEW s \in States, NEW M \in Nat, NEW a, DOMAIN a = 1..M, NEW b, DOMAIN b = 1..(M + 1),
         \A i \in 1..M : b[i] = a[i], b[M + 1].op \in AlgebraicOperation, Plain(b[M + 1].op),
         ApplyOperation(s, b[M + 1].op).ok, StateFollows(s, a)
  PROVE  StateFollows(ApplyOperation(s, b[M + 1].op).state, b)
<1>1. PICK o \in AlgebraicOperation : o = b[M + 1].op
  OBVIOUS
<1>2. SUFFICES ASSUME NEW k \in Keys PROVE KeyHolds(ApplyOperation(s, o).state, k, OnKey(b, k))
  BY <1>1 DEF StateFollows
<1>3. PICK h : h = OnKey(a, k)
  OBVIOUS
<1>4. KeyHolds(s, k, h)
  BY <1>3 DEF StateFollows
<1>5. DOMAIN h = {i \in 1..M : a[i].op.key = k} /\ \A i \in DOMAIN h : h[i] = a[i].op
  BY <1>3 DEF OnKey
<1>6. CASE k = o.key
  <2>1. OnKey(b, k) = With(h, M + 1, o)
    <3>1. {i \in 1..(M + 1) : b[i].op.key = k} = DOMAIN h \cup {M + 1}
      BY <1>1, <1>5, <1>6
    <3>2. \A i \in DOMAIN h : i # M + 1 /\ b[i].op = h[i]
      BY <1>5
    <3> QED
      BY <1>1, <3>1, <3>2 DEF OnKey, With
  <2>2. IsFiniteSet(DOMAIN h)
    <3>1. IsFiniteSet(1..M) /\ DOMAIN h \in SUBSET (1..M)
      BY <1>5, FS_Interval
    <3> QED
      BY <3>1, FS_Subset
  <2>3. PICK x : x = M + 1
    OBVIOUS
  <2>4. x \notin DOMAIN h
    BY <1>5, <2>3
  <2>5. ApplyOperation(s, o).ok /\ Plain(o) /\ KeyHolds(s, o.key, h)
    BY <1>1, <1>4, <1>6
  <2>6. KeyHolds(ApplyOperation(s, o).state, o.key, With(h, x, o))
    BY <2>2, <2>4, <2>5, ApplyExtends
  <2> QED
    BY <1>6, <2>1, <2>3, <2>6
<1>7. CASE k # o.key
  <2>1. OnKey(b, k) = h
    <3>1. {i \in 1..(M + 1) : b[i].op.key = k} = DOMAIN h
      BY <1>1, <1>5, <1>7
    <3> QED
      BY <1>3, <1>5, <3>1 DEF OnKey
  <2> QED
    BY <1>4, <1>7, <2>1, ApplyLeaves
<1> QED
  BY <1>6, <1>7

\* The parts of a list say of each key what they say together.
LEMMA SameOnKey ==
  ASSUME NEW a, NEW b, DOMAIN a = DOMAIN b, \A i \in DOMAIN a : a[i] = b[i],
         NEW s, StateFollows(s, a)
  PROVE  StateFollows(s, b)
<1>1. \A k \in Keys : OnKey(a, k) = OnKey(b, k)
  BY DEF OnKey
<1> QED
  BY <1>1 DEF StateFollows

\* All that callers commit and that arrives is plain.
PlainOperations ==
  /\ \A tx \in Transactions : \A i \in DOMAIN tx : Plain(tx[i])
  /\ \A u \in RemoteUpdates : \A i \in DOMAIN u.operations : Plain(u.operations[i])

\* apply_update_to_state merges the operations that are then listed as applied.
LEMMA ApplyFollows ==
  ASSUME FloatsRound, PlainOperations, SharedInv, state \in States, StateFollows(state, applied),
         NEW t \in Threads, Apply(t)
  PROVE  StateFollows(state', applied')
<1>1. PICK u, ops : u = work[t].update /\ ops = u.operations
  OBVIOUS
<1>2. PICK d : d = ApplyUpdateToState(state, u).done
  OBVIOUS
<1>3. PICK m : m = [i \in 1..d |-> [update |-> u, op |-> ops[i]]]
  OBVIOUS
<1>4. pc[t] = "apply" /\ applied' = applied \o m /\ state' = ApplyUpdateToState(state, u).state
  BY <1>1, <1>2, <1>3 DEF Apply
<1>5. u \in OwnUpdate \cup RemoteUpdate
  BY <1>1, <1>4, WorkAt DEF SharedInv, BaseTypes
<1>6. ops \in Seq(AlgebraicOperation) /\ \A i \in DOMAIN ops : Plain(ops[i])
  BY <1>1, <1>5 DEF OwnUpdate, RemoteUpdate, Update, PlainOperations
<1>7. d \in 0..Len(ops)
  <2> HIDE DEF AlgebraicOperation
  <2> QED
    BY <1>1, <1>2, <1>6, ApplyCounts
<1>8. PICK after : after = StatesAfter(state, ops)
  OBVIOUS
<1>9. /\ after[0] = state
      /\ \A i \in 0..Len(ops) : after[i] \in States
      /\ \A i \in 1..Len(ops) : after[i] = ApplyOperation(after[i - 1], ops[i]).state
  <2> HIDE DEF AlgebraicOperation, States
  <2> QED
    BY <1>6, <1>8, StatesFollow
<1>10. state' = after[d] /\ \A i \in 1..d : ApplyOperation(after[i - 1], ops[i]).ok
  <2> HIDE DEF AlgebraicOperation
  <2>1. \A i \in 1..d : ApplyOperation(after[i - 1], ops[i]).ok
    BY <1>1, <1>2, <1>6, <1>8, DoneMerge
  <2> QED
    BY <1>1, <1>2, <1>4, <1>8, <2>1 DEF ApplyUpdateToState
<1>11. \A i \in 1..d : i \in DOMAIN ops /\ ops[i] \in AlgebraicOperation
  BY <1>6, <1>7
<1>12. PICK L \in Nat : L = Len(applied) /\ DOMAIN applied = 1..L
  BY DEF SharedInv, BaseTypes
<1>13. PICK b : b = applied'
  OBVIOUS
<1>14. /\ DOMAIN b = 1..(L + d) /\ \A i \in 1..L : b[i] = applied[i]
       /\ \A i \in 1..d : b[L + i].op = ops[i]
  <2>1. PICK A : A = [update : OwnUpdate \cup RemoteUpdate, op : AlgebraicOperation]
    OBVIOUS
  <2>2. m \in [1..d -> A]
    BY <1>3, <1>5, <1>11, <2>1
  <2>3. applied \in Seq(A)
    BY <2>1 DEF SharedInv, BaseTypes
  <2>4. d \in Nat
    BY <1>6, <1>7
  <2>5. /\ b \in Seq(A) /\ Len(b) = Len(applied) + d
        /\ \A i \in 1..Len(applied) : b[i] = applied[i]
        /\ \A i \in 1..d : b[Len(applied) + i] = m[i]
    BY <1>4, <1>13, <2>2, <2>3, <2>4, SeqGrows
  <2>6. \A i \in 1..d : m[i].op = ops[i]
    BY <1>3
  <2> QED
    BY <1>12, <2>5, <2>6
<1> DEFINE first(j) == [i \in 1..(L + j) |-> b[i]]
           G == {j \in 0..d : StateFollows(after[j], first(j))}
<1>15. 0 \in G
  <2>1. StateFollows(state, first(0))
    <3>1. DOMAIN first(0) = DOMAIN applied /\ \A i \in DOMAIN applied : applied[i] = first(0)[i]
      BY <1>12, <1>14
    <3> HIDE DEF first
    <3> QED
      BY <3>1, SameOnKey
  <2> QED
    BY <1>7, <1>9, <2>1
<1>16. ASSUME NEW j \in 1..d, j - 1 \in G PROVE j \in G
  <2>1. PICK M \in Nat : M = L + (j - 1) /\ M + 1 = L + j
    BY <1>7
  <2>2. PICK f, g, s : f = first(j - 1) /\ g = first(j) /\ s = after[j - 1]
    OBVIOUS
  <2>3. DOMAIN f = 1..M /\ DOMAIN g = 1..(M + 1) /\ \A i \in 1..M : g[i] = f[i]
    BY <2>1, <2>2
  <2>4. g[M + 1].op = ops[j]
    BY <1>14, <2>1, <2>2
  <2>5. s \in States /\ StateFollows(s, f)
    BY <1>7, <1>9, <1>16, <2>2
  <2>6. /\ g[M + 1].op \in AlgebraicOperation /\ Plain(g[M + 1].op)
        /\ ApplyOperation(s, g[M + 1].op).ok /\ after[j] = ApplyOperation(s, g[M + 1].op).state
    BY <1>6, <1>7, <1>9, <1>10, <1>11, <2>2, <2>4
  <2>7. StateFollows(ApplyOperation(s, g[M + 1].op).state, g)
    BY <2>3, <2>5, <2>6, OneApplied
  <2> QED
    BY <2>2, <2>6, <2>7
<1>17. d \in G
  <2> HIDE DEF G
  <2>1. 0..d \subseteq G
    BY <1>7, <1>15, <1>16, NaturalSteps
  <2> QED
    BY <1>7, <2>1
<1>18. StateFollows(state', first(d))
  BY <1>10, <1>17
<1>19. DOMAIN first(d) = DOMAIN b /\ \A i \in DOMAIN first(d) : first(d)[i] = b[i]
  BY <1>14
<1> HIDE DEF first
<1> QED
  BY <1>13, <1>18, <1>19, SameOnKey

\* Every other step leaves the state and what was applied.
LEMMA StateFollowsStep ==
  ASSUME FloatsRound, PlainOperations, SharedInv, state \in States, StateFollows(state, applied),
         [Next]_vars
  PROVE  StateFollows(state', applied')
<1>1. CASE \E t \in Threads : Apply(t)
  BY <1>1, ApplyFollows
<1>2. CASE \A t \in Threads : ~Apply(t)
  <2>1. state' = state /\ applied' = applied
    BY <1>2 DEF Next, Step, TakeTick, Speculate, Push, BeginCommit, BeginSpeculation, BeginReceive,
       ConfirmSpeculative, RollbackSpeculative, UseEscrow, vars, managerVars
  <2> QED
    BY <2>1
<1> QED
  BY <1>1, <1>2

LEMMA FollowsBegins == Init => StateFollows(state, applied)
<1> SUFFICES ASSUME Init, NEW k \in Keys PROVE KeyHolds(state, k, OnKey(applied, k))
  BY DEF StateFollows
<1>1. DOMAIN state = {} /\ DOMAIN applied = {}
  BY DEF Init, EmptyState
<1>2. DOMAIN OnKey(applied, k) = {}
  BY <1>1 DEF OnKey
<1> QED
  BY <1>1, <1>2 DEF KeyHolds

LEMMA FollowsSays == StateFollows(state, applied) => StateIsMergeOfApplied
<1> SUFFICES ASSUME StateFollows(state, applied), NEW k \in Keys
             PROVE  /\ k \in DOMAIN state <=> Contents(k) # {}
                    /\ k \in DOMAIN state =>
                         /\ \A i \in Contents(k) : applied[i].op.op = state[k].op
                         /\ state[k].value =
                              Combined(state[k].op, [i \in Contents(k) |-> applied[i].op.value[2]])
  BY DEF StateIsMergeOfApplied
<1>1. PICK h : h = OnKey(applied, k)
  OBVIOUS
<1>2. DOMAIN h = Contents(k) /\ \A i \in Contents(k) : h[i] = applied[i].op
  BY <1>1 DEF OnKey, Contents
<1>3. KeyHolds(state, k, h)
  BY <1>1 DEF StateFollows
<1>4. ValuesOf(h) = [i \in Contents(k) |-> applied[i].op.value[2]]
  BY <1>2 DEF ValuesOf
<1> HIDE DEF Contents
<1>5. k \in DOMAIN state => state[k].value = Combined(state[k].op, ValuesOf(h))
  BY <1>3, ComesTo DEF KeyHolds
<1> QED
  BY <1>2, <1>3, <1>4, <1>5 DEF KeyHolds

\* Each commit counts once in what is visible, and in whatever order: a key is
\* the sum, maximum or union of all that was merged into it, by however many
\* threads, confirmed, committed or received, and an update is listed as
\* committed once, just when all of it was merged.
THEOREM CommitsCount ==
  ASSUME FloatsRound, PlainOperations
  PROVE  Spec => []CommitsCountOnce
<1> DEFINE Inv == SharedInv /\ state \in States /\ StateFollows(state, applied)
<1>1. Init => Inv
  BY SharedBegins, FollowsBegins, StatesAreStates DEF Init
<1>2. Inv /\ [Next]_vars => Inv'
  <2>1. States' = States
    BY DEF States
  <2>2. StateFollows(state', applied') <=> StateFollows(state, applied)'
    BY DEF StateFollows, OnKey, KeyHolds, Comes, ValuesOf
  <2> QED
    BY <2>1, <2>2, SharedNext, StateStep, StateFollowsStep
<1>3. Inv => StateIsMergeOfApplied
  BY FollowsSays
<1>4. Spec => []StateIsMergeOfApplied
  BY <1>1, <1>2, <1>3, PTL DEF Spec
<1> QED
  BY <1>4, CommitsOnce, PTL DEF CommitsCountOnce
=============================================================================
