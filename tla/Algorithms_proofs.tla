-------------------------- MODULE Algorithms_proofs --------------------------
(***************************************************************************)
(* Proofs about the pure algorithms of the core, for arguments of any size *)
(* and number; the laws of clocks and values and what applying an update   *)
(* leaves of a state are used by the proofs of the nodes, too.             *)
(***************************************************************************)
EXTENDS Algorithms, FiniteSetTheorems, SequenceTheorems, TLAPS

-----------------------------------------------------------------------------
(* vector_clock.rs: compare is a partial order and merge the least upper   *)
(* bound, entries that are missing or 0 notwithstanding.                   *)

\* d has seen all that c has seen.
Covers(d, c) == \A n \in NodeId : Time(c, n) <= Time(d, n)

\* The counters of a clock, those of unheard nodes included, are natural.
LEMMA TimeType ==
  ASSUME NEW c, IsClock(c), NEW n
  PROVE  Time(c, n) \in Nat
BY DEF IsClock, Time

\* A node no clock has heard of counts as 0 in both.
LEMMA NotBelow ==
  ASSUME NEW c, IsClock(c), NEW d, IsClock(d)
  PROVE  ~Below(d, c) <=> Covers(d, c)
<1>1. \A n \in NodeId : Time(c, n) \in Nat /\ Time(d, n) \in Nat
  BY TimeType
<1>2. \A n \in NodeId \ (DOMAIN c \cup DOMAIN d) : Time(c, n) = 0 /\ Time(d, n) = 0
  BY DEF Time
<1>3. DOMAIN c \cup DOMAIN d \subseteq NodeId
  BY DEF IsClock
<1> QED
  BY <1>1, <1>2, <1>3 DEF Below, Covers

\* A merge holds the larger counter of every node.
LEMMA MergeTime ==
  ASSUME NEW c, IsClock(c), NEW d, IsClock(d)
  PROVE  /\ IsClock(MergeClocks(c, d))
         /\ \A n \in NodeId :
              Time(MergeClocks(c, d), n) = Larger(Time(c, n), Time(d, n))
<1>1. \A n \in NodeId : Time(c, n) \in Nat /\ Time(d, n) \in Nat
  BY TimeType
<1>2. DOMAIN c \cup DOMAIN d \subseteq NodeId
  BY DEF IsClock
<1>3. ASSUME NEW n \in NodeId
      PROVE  Time(MergeClocks(c, d), n) = Larger(Time(c, n), Time(d, n))
  BY DEF Time, MergeClocks, Larger
<1>4. \A n \in NodeId : Larger(Time(c, n), Time(d, n)) \in Nat
  BY <1>1 DEF Larger
<1>5. IsClock(MergeClocks(c, d))
  BY <1>2, <1>4 DEF IsClock, MergeClocks
<1> QED
  BY <1>3, <1>5

\* A tick counts one more for its node and for no other.
LEMMA TickTime ==
  ASSUME NEW c, IsClock(c), NEW n \in NodeId
  PROVE  /\ IsClock(Tick(c, n))
         /\ Time(Tick(c, n), n) = Time(c, n) + 1
         /\ \A m \in NodeId \ {n} : Time(Tick(c, n), m) = Time(c, m)
<1>1. Time(c, n) + 1 \in Nat
  BY TimeType
<1>2. IsClock(Tick(c, n))
  BY <1>1 DEF IsClock, Tick, SetTime
<1>3. Time(Tick(c, n), n) = Time(c, n) + 1
  BY DEF Tick, SetTime, Time
<1>4. \A m \in NodeId \ {n} : Time(Tick(c, n), m) = Time(c, m)
  BY DEF Tick, SetTime, Time
<1> QED
  BY <1>2, <1>3, <1>4

\* What the answers of compare say of what each has seen.
LEMMA CompareCovers ==
  ASSUME NEW c, IsClock(c), NEW d, IsClock(d)
  PROVE  /\ Compare(c, d) = "Before" <=> Covers(d, c) /\ ~Covers(c, d)
         /\ Compare(c, d) = "After" <=> Covers(c, d) /\ ~Covers(d, c)
         /\ Compare(c, d) = "Equal" <=> Covers(c, d) /\ Covers(d, c)
         /\ Compare(c, d) = "Concurrent" <=> ~Covers(c, d) /\ ~Covers(d, c)
BY NotBelow DEF Compare

\* The merge covers both, and whatever covers both covers the merge.
LEMMA MergeCovers ==
  ASSUME NEW c, IsClock(c), NEW d, IsClock(d), NEW e, IsClock(e)
  PROVE  /\ Covers(MergeClocks(c, d), c) /\ Covers(MergeClocks(c, d), d)
         /\ Covers(e, MergeClocks(c, d)) <=> Covers(e, c) /\ Covers(e, d)
<1>1. \A n \in NodeId : Time(c, n) \in Nat /\ Time(d, n) \in Nat /\ Time(e, n) \in Nat
  BY TimeType
<1> QED
  BY <1>1, MergeTime DEF Covers, Larger

\* What covers a clock that covers another covers that too.
LEMMA CoversTransitive ==
  ASSUME NEW c, IsClock(c), NEW d, IsClock(d), NEW e, IsClock(e), Covers(d, c), Covers(e, d)
  PROVE  Covers(e, c)
<1>1. \A n \in NodeId : Time(c, n) \in Nat /\ Time(d, n) \in Nat /\ Time(e, n) \in Nat
  BY TimeType
<1>2. ASSUME NEW n \in NodeId PROVE Time(c, n) <= Time(e, n)
  <2>1. Time(c, n) <= Time(d, n) /\ Time(d, n) <= Time(e, n)
    BY DEF Covers
  <2> QED
    BY <1>1, <2>1
<1> QED
  BY <1>2 DEF Covers

\* Clocks that cover each other hold the same counters.
LEMMA CoversBoth ==
  ASSUME NEW c, IsClock(c), NEW d, IsClock(d)
  PROVE  /\ Covers(c, c)
         /\ Covers(c, d) /\ Covers(d, c) <=> \A n \in NodeId : Time(c, n) = Time(d, n)
<1>1. \A n \in NodeId : Time(c, n) \in Nat /\ Time(d, n) \in Nat
  BY TimeType
<1> QED
  BY <1>1 DEF Covers

\* Clocks are a lattice: whatever clocks compare and merge are given, their
\* answers are those of a partial order and of its least upper bounds.
THEOREM ClocksAreLattice ==
  ASSUME NEW c, IsClock(c), NEW d, IsClock(d), NEW e, IsClock(e)
  PROVE  CompareIsPartialOrder(c, d, e) /\ ClockMergeIsJoin(c, d, e)
<1>1. ASSUME NEW x, IsClock(x), NEW y, IsClock(y)
      PROVE  /\ Compare(x, y) = "Before" <=> Compare(y, x) = "After"
             /\ Compare(x, y) = "Equal" <=> \A n \in NodeId : Time(x, n) = Time(y, n)
             /\ AtOrBefore(x, y) <=> Covers(y, x)
  BY <1>1, CompareCovers, CoversBoth DEF AtOrBefore
<1>2. CompareIsPartialOrder(c, d, e)
  BY <1>1, CoversTransitive DEF CompareIsPartialOrder
<1> DEFINE m == MergeClocks(c, d)
<1>3. IsClock(m)
  BY MergeTime
<1>4. /\ Covers(m, c) /\ Covers(m, d) /\ Covers(c, c) /\ Covers(d, d)
      /\ Covers(e, m) <=> Covers(e, c) /\ Covers(e, d)
      /\ Covers(c, m) <=> Covers(c, d)
      /\ Covers(d, m) <=> Covers(d, c)
  BY MergeCovers, CoversBoth
<1> HIDE DEF m
<1>5. /\ AtOrBefore(c, m) /\ AtOrBefore(d, m)
      /\ AtOrBefore(c, e) /\ AtOrBefore(d, e) => AtOrBefore(m, e)
  BY <1>1, <1>3, <1>4
<1>6. ShouldApply(Compare(c, d)) <=> ~Covers(c, d)
  BY CompareCovers DEF ShouldApply
<1>7. NeedsMerge(Compare(c, d)) <=> ~Covers(c, d) /\ ~Covers(d, c)
  BY CompareCovers DEF NeedsMerge
<1>8. /\ Compare(c, m) = "Before" <=> ~Covers(c, d)
      /\ Compare(d, m) = "Before" <=> ~Covers(d, c)
  BY <1>3, <1>4, CompareCovers
<1>9. ClockMergeIsJoin(c, d, e)
  BY <1>5, <1>6, <1>7, <1>8 DEF m, ClockMergeIsJoin
<1> QED
  BY <1>2, <1>9

-----------------------------------------------------------------------------
(* Induction *)

\* Whatever holds of 0 and passes from each number to the next holds up to N:
\* what is said of numbers is the set G of those it holds of.  If G missed n,
\* its numbers up to n would all have a successor among those that are not 0,
\* which are fewer.
LEMMA NaturalSteps ==
  ASSUME NEW N \in Nat, NEW G, 0 \in G, \A i \in 1..N : i - 1 \in G => i \in G
  PROVE  0..N \subseteq G
<1> SUFFICES ASSUME NEW n \in 0..N, n \notin G PROVE FALSE
  OBVIOUS
<1> DEFINE H == G \cap (0..n)
           successor == [i \in H |-> i + 1]
<1>1. IsFiniteSet(H) /\ 0 \in H /\ n \notin H
  <2>1. IsFiniteSet(0..n) /\ H \in SUBSET (0..n)
    BY FS_Interval
  <2>2. 0 \in H /\ n \notin H
    OBVIOUS
  <2> HIDE DEF H
  <2> QED
    BY <2>1, <2>2, FS_Subset
<1>2. successor \in [H -> H \ {0}] /\ \A i, j \in H : i # j => successor[i] # successor[j]
  OBVIOUS
<1> HIDE DEF H, successor
<1>3. IsFiniteSet(H \ {0}) /\ Cardinality(H \ {0}) = Cardinality(H) - 1 /\ Cardinality(H) \in Nat
  BY <1>1, FS_RemoveElement, FS_CardinalityType
<1>4. Cardinality(H \ {0}) < Cardinality(H)
  BY <1>3
<1> QED
  BY <1>1, <1>2, <1>3, <1>4, FS_PigeonHole

\* A set of natural numbers that has an element has a smallest one.
LEMMA LeastNumber ==
  ASSUME NEW A, A \subseteq Nat, A # {}
  PROVE  \E n \in A : \A m \in A : n <= m
<1> SUFFICES ASSUME \A n \in A : \E m \in A : m < n PROVE FALSE
  OBVIOUS
<1>1. PICK k \in A : TRUE
  OBVIOUS
<1> DEFINE G == {n \in Nat : \A m \in A : n < m}
<1>2. 0 \in G
  OBVIOUS
<1>3. ASSUME NEW n \in 1..k, n - 1 \in G PROVE n \in G
  <2>1. \A m \in A : n <= m
    BY <1>3
  <2> QED
    BY <2>1
<1>4. 0..k \subseteq G
  <2> HIDE DEF G
  <2>1. \A n \in 1..k : n - 1 \in G => n \in G
    BY <1>3
  <2> QED
    BY <1>1, <1>2, <2>1, NaturalSteps
<1> QED
  BY <1>1, <1>4

\* The values of s, of N steps one after another.
Iteration(S, s, N, step) ==
  CHOOSE f \in [0..N -> S] : f[0] = s /\ \A i \in 1..N : f[i] = step[i][f[i - 1]]

\* Steps that stay in a set can be repeated.
LEMMA Iterates ==
  ASSUME NEW S, NEW s \in S, NEW N \in Nat, NEW step \in [1..N -> [S -> S]]
  PROVE  /\ Iteration(S, s, N, step) \in [0..N -> S]
         /\ Iteration(S, s, N, step)[0] = s
         /\ \A i \in 1..N : Iteration(S, s, N, step)[i] = step[i][Iteration(S, s, N, step)[i - 1]]
<1> DEFINE Body(n, f) == f \in [0..n -> S] /\ f[0] = s /\ \A i \in 1..n : f[i] = step[i][f[i - 1]]
           G == {n \in Nat : \E f : Body(n, f)}
<1>1. 0 \in G
  <2>1. Body(0, [i \in 0..0 |-> s])
    OBVIOUS
  <2> QED
    BY <2>1
<1>2. ASSUME NEW n \in 1..N, n - 1 \in G PROVE n \in G
  <2>1. PICK f : Body(n - 1, f)
    BY <1>2
  <2> DEFINE g == [i \in 0..n |-> IF i = n THEN step[n][f[n - 1]] ELSE f[i]]
  <2>2. f[n - 1] \in S /\ step[n][f[n - 1]] \in S
    BY <2>1
  <2>3. g \in [0..n -> S] /\ g[0] = s
    BY <2>1, <2>2
  <2>4. ASSUME NEW i \in 1..n PROVE g[i] = step[i][g[i - 1]]
    <3>1. g[i - 1] = f[i - 1]
      OBVIOUS
    <3>2. CASE i = n
      BY <3>1, <3>2
    <3>3. CASE i # n
      BY <2>1, <3>1, <3>3
    <3> QED
      BY <3>2, <3>3
  <2>5. Body(n, g)
    BY <2>3, <2>4
  <2> HIDE DEF g
  <2> QED
    BY <2>5
<1>3. N \in G
  <2> HIDE DEF G
  <2>1. \A n \in 1..N : n - 1 \in G => n \in G
    BY <1>2
  <2>2. 0..N \subseteq G
    BY <1>1, <2>1, NaturalSteps
  <2> QED
    BY <2>2
<1>4. \E f \in [0..N -> S] : f[0] = s /\ \A i \in 1..N : f[i] = step[i][f[i - 1]]
  BY <1>3
<1> QED
  BY <1>4 DEF Iteration

-----------------------------------------------------------------------------
(* merge.rs *)

\* Every number has a float that is the nearest, one of two by the rule of ties.
FloatsRound == \A n \in Int, d \in {1, 2} : Nearest(n, d) \in FloatValues

\* What a value holds, by its tag.
LEMMA ValueTypes ==
  ASSUME NEW v \in AlgebraicValue
  PROVE  /\ IsNull(v) => v = Null
         /\ v[1] = "Integer" => v[2] \in MinInt..MaxInt
         /\ v[1] = "Float" => v[2] \in FloatValues
         /\ v[1] = "StringSet" => v[2] \subseteq Strings
         /\ v[1] = "IntSet" => v[2] \subseteq MinInt..MaxInt
         /\ v[1] = "Boolean" => v[2] \in BOOLEAN
<1>1. CASE v \in {"Integer"} \X (MinInt..MaxInt)
  BY <1>1 DEF IsNull
<1>2. CASE v \in {"Float"} \X FloatValues
  BY <1>2 DEF IsNull
<1>3. CASE v \in {"StringSet"} \X SUBSET Strings
  BY <1>3 DEF IsNull
<1>4. CASE v \in {"IntSet"} \X SUBSET (MinInt..MaxInt)
  BY <1>4 DEF IsNull
<1>5. CASE v \in {"Boolean"} \X BOOLEAN
  BY <1>5 DEF IsNull
<1>6. CASE v = Null
  BY <1>6 DEF Null
<1> QED
  BY <1>1, <1>2, <1>3, <1>4, <1>5, <1>6 DEF AlgebraicValue

\* A number that merges is an integer in range or a float.
LEMMA NumberTypes ==
  ASSUME FloatsRound, NEW v \in AlgebraicValue, NEW w \in AlgebraicValue, IsNumeric(v), IsNumeric(w),
         NEW r \in {MergeNumbers(v, w, Upper, Upper), MergeNumbers(v, w, Lower, Lower),
                    MergeNumbers(v, w, IntegerSum, FloatSum), MergeNumbers(v, w, IntegerProduct, FloatProduct)},
         IsMerged(r)
  PROVE  r.value \in AlgebraicValue
<1>1. ASSUME NEW x \in AlgebraicValue, IsNumeric(x)
      PROVE  FloatOf(x) \in FloatValues
  <2>1. CASE x[1] = "Integer"
    <3>1. 2 * x[2] \in Int
      BY <2>1, ValueTypes, IntAssumption
    <3> QED
      BY <2>1, <3>1 DEF FloatsRound, FloatOf, ToFloat
  <2>2. CASE x[1] = "Float"
    BY <2>2, ValueTypes DEF FloatOf
  <2> QED
    BY <1>1, <2>1, <2>2 DEF IsNumeric
<1> DEFINE g == FloatOf(v)
           h == FloatOf(w)
<1>2. g \in FloatValues /\ h \in FloatValues /\ g \in Int /\ h \in Int
  BY <1>1, FloatAssumption
<1>3. /\ Upper(g, h) \in FloatValues /\ Lower(g, h) \in FloatValues
      /\ FloatSum(g, h) \in FloatValues /\ FloatProduct(g, h) \in FloatValues
  <2>1. g + h \in Int /\ g * h \in Int
    BY <1>2
  <2> HIDE DEF g, h
  <2> QED
    BY <1>2, <2>1 DEF FloatsRound, Upper, Lower, FloatSum, FloatProduct
<1>4. ASSUME NEW f \in FloatValues
      PROVE  Float(f) \in AlgebraicValue /\ NumericResult(f) \in AlgebraicValue
  <2>1. Float(f) \in AlgebraicValue
    BY DEF Float, AlgebraicValue
  <2>2. f \div 2 \in Int
    BY FloatAssumption
  <2>3. ToInteger(f) \in MinInt..MaxInt
    BY <2>2, IntAssumption DEF ToInteger
  <2>4. Integer(ToInteger(f)) \in AlgebraicValue
    BY <2>3 DEF Integer, AlgebraicValue
  <2> QED
    BY <2>1, <2>4 DEF NumericResult
<1>5. \A i \in MinInt..MaxInt : Integer(i) \in AlgebraicValue
  BY DEF Integer, AlgebraicValue
<1> HIDE DEF g, h
<1>6. CASE HaveType(v, w, "Integer")
  BY <1>5, <1>6 DEF MergeNumbers, IsMerged, Merged, Conflict
<1>7. CASE ~HaveType(v, w, "Integer")
  BY <1>3, <1>4, <1>7 DEF MergeNumbers, Merged, g, h
<1> QED
  BY <1>6, <1>7

\* What merges is a value.
LEMMA MergeTypes ==
  ASSUME FloatsRound, NEW op, NEW v \in AlgebraicValue, NEW w \in AlgebraicValue, IsMerged(Merge(op, v, w))
  PROVE  Merge(op, v, w).value \in AlgebraicValue
<1>1. /\ \A s \in SUBSET Strings : StringSet(s) \in AlgebraicValue
      /\ \A s \in SUBSET (MinInt..MaxInt) : IntSet(s) \in AlgebraicValue
      /\ \A b \in BOOLEAN : Boolean(b) \in AlgebraicValue
  BY DEF StringSet, IntSet, Boolean, AlgebraicValue
<1>2. CASE IsNull(v) \/ IsNull(w)
  BY <1>2 DEF Merge, Merged
<1>3. CASE ~IsNull(v) /\ ~IsNull(w)
  <2>1. /\ HaveType(v, w, "StringSet") => v[2] \cup w[2] \in SUBSET Strings /\ v[2] \cap w[2] \in SUBSET Strings
        /\ HaveType(v, w, "IntSet") => /\ v[2] \cup w[2] \in SUBSET (MinInt..MaxInt)
                                       /\ v[2] \cap w[2] \in SUBSET (MinInt..MaxInt)
        /\ HaveType(v, w, "Boolean") => (v[2] \/ w[2]) \in BOOLEAN /\ (v[2] /\ w[2]) \in BOOLEAN
    BY ValueTypes DEF HaveType
  <2>2. IsMerged(MergeMax(v, w)) => MergeMax(v, w).value \in AlgebraicValue
    <3>1. CASE IsNumeric(v) /\ IsNumeric(w)
      <4>1. MergeMax(v, w) = MergeNumbers(v, w, Upper, Upper)
        BY <3>1 DEF MergeMax, HaveType, IsNumeric
      <4> QED
        BY <3>1, <4>1, NumberTypes
    <3>2. CASE ~(IsNumeric(v) /\ IsNumeric(w)) /\ HaveType(v, w, "Boolean")
      BY <1>1, <2>1, <3>2 DEF MergeMax, Merged
    <3>3. CASE ~(IsNumeric(v) /\ IsNumeric(w)) /\ ~HaveType(v, w, "Boolean")
      BY <3>3 DEF MergeMax, IsMerged, TypeMismatch
    <3> QED
      BY <3>1, <3>2, <3>3
  <2>3. IsMerged(MergeMin(v, w)) => MergeMin(v, w).value \in AlgebraicValue
    <3>1. CASE IsNumeric(v) /\ IsNumeric(w)
      <4>1. MergeMin(v, w) = MergeNumbers(v, w, Lower, Lower)
        BY <3>1 DEF MergeMin, HaveType, IsNumeric
      <4> QED
        BY <3>1, <4>1, NumberTypes
    <3>2. CASE ~(IsNumeric(v) /\ IsNumeric(w)) /\ HaveType(v, w, "Boolean")
      BY <1>1, <2>1, <3>2 DEF MergeMin, Merged
    <3>3. CASE ~(IsNumeric(v) /\ IsNumeric(w)) /\ ~HaveType(v, w, "Boolean")
      BY <3>3 DEF MergeMin, IsMerged, TypeMismatch
    <3> QED
      BY <3>1, <3>2, <3>3
  <2>4. IsMerged(MergeUnion(v, w)) => MergeUnion(v, w).value \in AlgebraicValue
    BY <1>1, <2>1 DEF MergeUnion, IsMerged, Merged, TypeMismatch
  <2>5. IsMerged(MergeIntersect(v, w)) => MergeIntersect(v, w).value \in AlgebraicValue
    BY <1>1, <2>1 DEF MergeIntersect, IsMerged, Merged, TypeMismatch
  <2>6. IsMerged(MergeAdd(v, w)) => MergeAdd(v, w).value \in AlgebraicValue
    BY NumberTypes DEF MergeAdd, IsMerged, TypeMismatch
  <2>7. IsMerged(MergeMultiply(v, w)) => MergeMultiply(v, w).value \in AlgebraicValue
    BY NumberTypes DEF MergeMultiply, IsMerged, TypeMismatch
  <2> QED
    BY <1>3, <2>2, <2>3, <2>4, <2>5, <2>6, <2>7 DEF Merge, Conflict, IsMerged
<1> QED
  BY <1>2, <1>3

\* Every integer has a nearest float.
FloatsCoverIntegers == \A i \in MinInt..MaxInt : ToFloat(i) \in FloatValues

\* The operations on numbers are symmetric, rounding included.
LEMMA NumbersCommute ==
  ASSUME FloatsCoverIntegers,
         NEW v \in AlgebraicValue, NEW w \in AlgebraicValue, IsNumeric(v), IsNumeric(w)
  PROVE  /\ MergeNumbers(v, w, Upper, Upper) = MergeNumbers(w, v, Upper, Upper)
         /\ MergeNumbers(v, w, Lower, Lower) = MergeNumbers(w, v, Lower, Lower)
         /\ MergeNumbers(v, w, IntegerSum, FloatSum) = MergeNumbers(w, v, IntegerSum, FloatSum)
         /\ MergeNumbers(v, w, IntegerProduct, FloatProduct) = MergeNumbers(w, v, IntegerProduct, FloatProduct)
<1>1. /\ v[1] = "Integer" => v[2] \in Int
      /\ w[1] = "Integer" => w[2] \in Int
      /\ FloatOf(v) \in Int /\ FloatOf(w) \in Int
  <2>1. ASSUME NEW x \in AlgebraicValue, x[1] \in {"Integer", "Float"}
        PROVE  /\ x[1] = "Integer" => x[2] \in Int
               /\ FloatOf(x) \in Int
    <3>1. CASE x[1] = "Integer"
      <4>1. x[2] \in MinInt..MaxInt
        BY <3>1, ValueTypes
      <4>2. ToFloat(x[2]) \in FloatValues
        BY <4>1 DEF FloatsCoverIntegers
      <4>3. FloatOf(x) = ToFloat(x[2])
        BY <3>1 DEF FloatOf
      <4>4. x[2] \in Int
        BY <4>1, IntAssumption
      <4>5. ToFloat(x[2]) \in Int
        BY <4>2, FloatAssumption
      <4> QED
        BY <4>3, <4>4, <4>5
    <3>2. CASE x[1] = "Float"
      <4>1. x[2] \in FloatValues
        BY <3>2, ValueTypes
      <4> QED
        BY <3>2, <4>1, FloatAssumption DEF FloatOf
    <3> QED
      BY <2>1, <3>1, <3>2
  <2> QED
    BY <2>1 DEF IsNumeric
<1>2. /\ HaveType(v, w, "Integer") <=> HaveType(w, v, "Integer")
      /\ HaveType(v, w, "Float") <=> HaveType(w, v, "Float")
  BY DEF HaveType
<1>3. \A i, j \in Int : Upper(i, j) = Upper(j, i) /\ Lower(i, j) = Lower(j, i)
  BY DEF Upper, Lower
<1>4. \A i, j \in Int : i + j = j + i /\ i * j = j * i
  OBVIOUS
<1>5. \A i, j \in Int : /\ IntegerSum(i, j) = IntegerSum(j, i) /\ IntegerProduct(i, j) = IntegerProduct(j, i)
                        /\ FloatSum(i, j) = FloatSum(j, i) /\ FloatProduct(i, j) = FloatProduct(j, i)
  BY <1>4 DEF IntegerSum, IntegerProduct, FloatSum, FloatProduct
<1>6. HaveType(v, w, "Integer") => v[2] \in Int /\ w[2] \in Int
  BY <1>1 DEF HaveType
<1>7. MergeNumbers(v, w, Upper, Upper) = MergeNumbers(w, v, Upper, Upper)
  BY <1>1, <1>2, <1>3, <1>6 DEF MergeNumbers
<1>8. MergeNumbers(v, w, Lower, Lower) = MergeNumbers(w, v, Lower, Lower)
  BY <1>1, <1>2, <1>3, <1>6 DEF MergeNumbers
<1>9. MergeNumbers(v, w, IntegerSum, FloatSum) = MergeNumbers(w, v, IntegerSum, FloatSum)
  BY <1>1, <1>2, <1>5, <1>6 DEF MergeNumbers
<1>10. MergeNumbers(v, w, IntegerProduct, FloatProduct) = MergeNumbers(w, v, IntegerProduct, FloatProduct)
  BY <1>1, <1>2, <1>5, <1>6 DEF MergeNumbers
<1> QED
  BY <1>7, <1>8, <1>9, <1>10

\* Merging two values gives every node the same, whichever it had first: for
\* any range of integers and any floats, with overflow, rounding and errors
\* (AlgebraicMerger::merge).
THEOREM MergeIsCommutative ==
  ASSUME FloatsCoverIntegers, NEW op, NEW v \in AlgebraicValue, NEW w \in AlgebraicValue
  PROVE  Merge(op, v, w) = Merge(op, w, v)
<1>1. /\ v[1] = "Boolean" => v[2] \in BOOLEAN
      /\ w[1] = "Boolean" => w[2] \in BOOLEAN
      /\ IsNull(v) => v = Null
      /\ IsNull(w) => w = Null
  BY ValueTypes
<1>2. MergeUnion(v, w) = MergeUnion(w, v) /\ MergeIntersect(v, w) = MergeIntersect(w, v)
  BY <1>1 DEF MergeUnion, MergeIntersect, HaveType, Merged, Boolean, StringSet, IntSet
<1>3. ASSUME ~(IsNumeric(v) /\ IsNumeric(w))
      PROVE  MergeMax(v, w) = MergeMax(w, v) /\ MergeMin(v, w) = MergeMin(w, v)
  BY <1>1, <1>3 DEF MergeMax, MergeMin, HaveType, Merged, Boolean
<1>4. ASSUME IsNumeric(v) /\ IsNumeric(w)
      PROVE  MergeMax(v, w) = MergeMax(w, v) /\ MergeMin(v, w) = MergeMin(w, v)
  <2>1. /\ MergeMax(v, w) = MergeNumbers(v, w, Upper, Upper)
        /\ MergeMax(w, v) = MergeNumbers(w, v, Upper, Upper)
        /\ MergeMin(v, w) = MergeNumbers(v, w, Lower, Lower)
        /\ MergeMin(w, v) = MergeNumbers(w, v, Lower, Lower)
    BY <1>4 DEF MergeMax, MergeMin, HaveType, IsNumeric
  <2> QED
    BY <1>4, <2>1, NumbersCommute
<1>5. MergeMax(v, w) = MergeMax(w, v) /\ MergeMin(v, w) = MergeMin(w, v)
  BY <1>3, <1>4
<1>6. MergeAdd(v, w) = MergeAdd(w, v) /\ MergeMultiply(v, w) = MergeMultiply(w, v)
  BY NumbersCommute DEF MergeAdd, MergeMultiply
<1>7. CASE IsNull(v) \/ IsNull(w)
  BY <1>1, <1>7 DEF Merge
<1>8. CASE ~IsNull(v) /\ ~IsNull(w)
  BY <1>2, <1>5, <1>6, <1>8 DEF Merge
<1> QED
  BY <1>7, <1>8

-----------------------------------------------------------------------------
(* apply_update_to_state *)

\* What the state of a node can be.
States == UNION {[D -> [op : OpType, value : AlgebraicValue]] : D \in SUBSET Keys}

\* States are what the type invariant calls one.
LEMMA StatesAreStates == EmptyState \in States /\ \A s \in States : IsState(s)
BY DEF States, EmptyState, IsState

\* An operation leaves a state, in which nothing but its key is new.
LEMMA OperationTypes ==
  ASSUME FloatsRound, NEW s \in States, NEW o \in AlgebraicOperation
  PROVE  /\ ApplyOperation(s, o).state \in States
         /\ DOMAIN ApplyOperation(s, o).state \subseteq DOMAIN s \cup {o.key}
         /\ o.key \notin DOMAIN s => ApplyOperation(s, o).ok
<1> DEFINE merged == IF o.key \in DOMAIN s
                     THEN IF s[o.key].op = o.op THEN Merge(o.op, s[o.key].value, o.value) ELSE Conflict
                     ELSE Merged(o.value)
           new == [k \in DOMAIN s \cup {o.key} |->
                     IF k = o.key THEN [op |-> o.op, value |-> merged.value] ELSE s[k]]
<1>1. /\ s = [k \in DOMAIN s |-> s[k]] /\ DOMAIN s \in SUBSET Keys
      /\ \A k \in DOMAIN s : s[k] \in [op : OpType, value : AlgebraicValue]
      /\ o.key \in Keys /\ o.op \in OpType /\ o.value \in AlgebraicValue
  BY DEF States, AlgebraicOperation
<1>2. IsMerged(merged) => merged.value \in AlgebraicValue
  <2>1. CASE o.key \in DOMAIN s /\ s[o.key].op = o.op
    BY <1>1, <2>1, MergeTypes
  <2>2. CASE o.key \in DOMAIN s /\ s[o.key].op # o.op
    BY <2>2 DEF Conflict, IsMerged
  <2>3. CASE o.key \notin DOMAIN s
    BY <1>1, <2>3 DEF Merged
  <2> QED
    BY <2>1, <2>2, <2>3
<1>3. ApplyOperation(s, o) = [ok |-> IsMerged(merged), state |-> IF IsMerged(merged) THEN new ELSE s]
  BY DEF ApplyOperation
<1>4. o.key \notin DOMAIN s => IsMerged(merged)
  BY DEF IsMerged, Merged
<1> HIDE DEF merged
<1>5. IsMerged(merged) => new \in States
  <2>1. IsMerged(merged) => new \in [DOMAIN s \cup {o.key} -> [op : OpType, value : AlgebraicValue]]
    BY <1>1, <1>2
  <2>2. DOMAIN s \cup {o.key} \in SUBSET Keys
    BY <1>1
  <2> QED
    BY <2>1, <2>2 DEF States
<1>6. DOMAIN new = DOMAIN s \cup {o.key}
  OBVIOUS
<1> HIDE DEF new
<1> QED
  BY <1>3, <1>4, <1>5, <1>6

\* Operations can be tried one after another.
LEMMA StatesIterate ==
  ASSUME FloatsRound, NEW s \in States, NEW N \in Nat, NEW o \in [1..N -> AlgebraicOperation]
  PROVE  \E f \in [0..N -> States] :
           f[0] = s /\ \A i \in 1..N : f[i] = ApplyOperation(f[i - 1], o[i]).state
<1>1. PICK step \in [1..N -> [States -> States]] :
        step = [i \in 1..N |-> [x \in States |-> ApplyOperation(x, o[i]).state]]
  BY OperationTypes
<1> DEFINE f == Iteration(States, s, N, step)
<1>2. f \in [0..N -> States] /\ f[0] = s /\ \A i \in 1..N : f[i] = step[i][f[i - 1]]
  BY Iterates
<1> HIDE DEF f
<1>3. ASSUME NEW i \in 1..N PROVE f[i] = ApplyOperation(f[i - 1], o[i]).state
  <2>1. f[i - 1] \in States
    BY <1>2
  <2> QED
    BY <1>1, <1>2, <2>1
<1> QED
  BY <1>2, <1>3

\* The states that an update goes through follow each other by its operations.
LEMMA StatesFollow ==
  ASSUME FloatsRound, NEW s \in States, NEW ops \in Seq(AlgebraicOperation)
  PROVE  /\ StatesAfter(s, ops)[0] = s
         /\ \A i \in 0..Len(ops) : StatesAfter(s, ops)[i] \in States
         /\ \A i \in 1..Len(ops) :
              StatesAfter(s, ops)[i] = ApplyOperation(StatesAfter(s, ops)[i - 1], ops[i]).state
<1>1. PICK N \in Nat : N = Len(ops)
  OBVIOUS
<1>2. \A i \in 1..N : ops[i] \in AlgebraicOperation
  BY <1>1
<1>3. PICK f \in [0..N -> States] :
        f[0] = s /\ \A i \in 1..N : f[i] = ApplyOperation(f[i - 1], ops[i]).state
  <2>1. ops \in [1..N -> AlgebraicOperation]
    BY <1>1
  <2> QED
    BY <2>1, StatesIterate
<1> DEFINE after == StatesAfter(s, ops)
           G == {i \in 0..N : after[i] \in States}
<1>4. f = [i \in 0..N |-> IF i = 0 THEN s ELSE ApplyOperation(f[i - 1], ops[i]).state]
  BY <1>3
<1>5. after = [i \in 0..N |-> IF i = 0 THEN s ELSE ApplyOperation(after[i - 1], ops[i]).state]
  BY <1>1, <1>4 DEF StatesAfter
<1> HIDE DEF after
<1>6. /\ after[0] = s
      /\ \A i \in 1..N : after[i] = ApplyOperation(after[i - 1], ops[i]).state
  BY <1>5
<1>7. ASSUME NEW i \in 1..N, i - 1 \in G PROVE i \in G
  <2>1. after[i - 1] \in States /\ ops[i] \in AlgebraicOperation
    BY <1>2, <1>7
  <2> QED
    BY <1>6, <2>1, OperationTypes
<1>8. 0..N \subseteq G
  <2>1. 0 \in G
    BY <1>6
  <2>2. \A i \in 1..N : i - 1 \in G => i \in G
    BY <1>7
  <2> HIDE DEF G
  <2> QED
    BY <2>1, <2>2, NaturalSteps
<1>9. \A i \in 0..N : after[i] \in States
  BY <1>8
<1> QED
  BY <1>1, <1>6, <1>9 DEF after

\* The operations that are done are the first ones, all of them or not.
LEMMA ApplyCounts ==
  ASSUME NEW s, NEW u, u.operations \in Seq(AlgebraicOperation)
  PROVE  /\ ApplyUpdateToState(s, u).done \in 0..Len(u.operations)
         /\ ApplyUpdateToState(s, u).ok <=> ApplyUpdateToState(s, u).done = Len(u.operations)
<1> DEFINE ops == u.operations
           after == StatesAfter(s, ops)
           merged == {i \in DOMAIN ops : \A j \in 1..i : ApplyOperation(after[j - 1], ops[j]).ok}
<1>1. ApplyUpdateToState(s, u) =
        [ok |-> Cardinality(merged) = Len(ops), state |-> after[Cardinality(merged)],
         done |-> Cardinality(merged)]
  BY DEF ApplyUpdateToState
<1>2. PICK N \in Nat : N = Len(ops) /\ DOMAIN ops = 1..N
  OBVIOUS
<1>3. IsFiniteSet(1..N) /\ Cardinality(1..N) = N
  BY FS_Interval
<1>4. Cardinality(merged) \in 0..N
  <2>1. merged \in SUBSET (1..N)
    BY <1>2
  <2> HIDE DEF merged
  <2>2. IsFiniteSet(merged) /\ Cardinality(merged) <= N
    BY <1>3, <2>1, FS_Subset
  <2>3. Cardinality(merged) \in Nat
    BY <2>2, FS_CardinalityType
  <2> QED
    BY <2>2, <2>3
<1> QED
  <2>1. ApplyUpdateToState(s, u).done = Cardinality(merged)
    BY <1>1
  <2> HIDE DEF merged, after
  <2>2. ApplyUpdateToState(s, u).ok = (Cardinality(merged) = Len(ops))
    BY <1>1
  <2> QED
    BY <1>2, <1>4, <2>1, <2>2

\* An update leaves a state, whether all its operations merged or not.
LEMMA ApplyTypes ==
  ASSUME FloatsRound, NEW s \in States, NEW u, u.operations \in Seq(AlgebraicOperation)
  PROVE  ApplyUpdateToState(s, u).state \in States
<1>1. ApplyUpdateToState(s, u).state = StatesAfter(s, u.operations)[ApplyUpdateToState(s, u).done]
  BY DEF ApplyUpdateToState
<1> QED
  BY <1>1, ApplyCounts, StatesFollow

\* Operations on different keys, none of which the state has, all merge.
LEMMA FreshKeysMerge ==
  ASSUME FloatsRound, NEW s \in States, NEW u, u.operations \in Seq(AlgebraicOperation),
         \A i, j \in DOMAIN u.operations : u.operations[i].key = u.operations[j].key => i = j,
         KeysOf(u.operations) \cap DOMAIN s = {}
  PROVE  ApplyUpdateToState(s, u).ok
<1> DEFINE ops == u.operations
           after == StatesAfter(s, ops)
           merged == {i \in DOMAIN ops : \A j \in 1..i : ApplyOperation(after[j - 1], ops[j]).ok}
<1>1. PICK N \in Nat : N = Len(ops)
  OBVIOUS
<1>2. \A i \in 1..N : ops[i] \in AlgebraicOperation /\ ops[i].key \notin DOMAIN s
  BY <1>1 DEF KeysOf
<1>3. /\ after[0] = s
      /\ \A i \in 0..N : after[i] \in States
      /\ \A i \in 1..N : after[i] = ApplyOperation(after[i - 1], ops[i]).state
  BY <1>1, StatesFollow
<1> DEFINE G == {i \in 0..N : DOMAIN after[i] \subseteq DOMAIN s \cup {ops[j].key : j \in 1..i}}
<1>4. ASSUME NEW i \in 1..N, i - 1 \in G PROVE i \in G
  <2>1. DOMAIN after[i] \subseteq DOMAIN after[i - 1] \cup {ops[i].key}
    <3>1. after[i - 1] \in States
      BY <1>3
    <3> QED
      BY <1>2, <1>3, <3>1, OperationTypes
  <2>2. {ops[j].key : j \in 1..(i - 1)} \cup {ops[i].key} \subseteq {ops[j].key : j \in 1..i}
    OBVIOUS
  <2> HIDE DEF after, ops
  <2> QED
    BY <1>4, <2>1, <2>2
<1>5. 0 \in G
  <2> HIDE DEF after, ops
  <2> QED
    BY <1>3
<1>6. 0..N \subseteq G
  <2>1. \A i \in 1..N : i - 1 \in G => i \in G
    BY <1>4
  <2> HIDE DEF G
  <2> QED
    BY <1>5, <2>1, NaturalSteps
<1>7. ASSUME NEW i \in 1..N PROVE ApplyOperation(after[i - 1], ops[i]).ok
  <2>1. i - 1 \in G
    BY <1>6
  <2>2. \A j \in 1..(i - 1) : ops[j].key # ops[i].key
    BY <1>1
  <2>3. ops[i].key \notin DOMAIN after[i - 1]
    <3> HIDE DEF after, ops
    <3> QED
      BY <1>2, <2>1, <2>2
  <2> QED
    BY <1>2, <1>3, <2>3, OperationTypes
<1>8. merged = 1..N
  <2>1. DOMAIN ops = 1..N
    BY <1>1
  <2>2. \A i \in 1..N : \A j \in 1..i : j \in 1..N
    OBVIOUS
  <2> HIDE DEF after, ops
  <2> QED
    BY <1>7, <2>1, <2>2
<1>9. Cardinality(1..N) = N
  BY FS_Interval
<1> QED
  BY <1>1, <1>8, <1>9 DEF ApplyUpdateToState

-----------------------------------------------------------------------------
(* What SumFunction of the library computes: it adds up the values of a    *)
(* function one after another, and their order does not matter.            *)

\* Any element of a set, and a function that adds up f over the subsets of S.
Pick(s) == CHOOSE x \in s : TRUE
Adding(h, f, s) == IF s = {} THEN 0 ELSE f[Pick(s)] + h[s \ {Pick(s)}]
AddsUp(h, f, S) == \A s \in SUBSET S : h[s] = Adding(h, f, s)

\* Subsets of a finite set, and what taking out one element leaves.
LEMMA SmallerSet ==
  ASSUME NEW S, IsFiniteSet(S), NEW s \in SUBSET S
  PROVE  /\ IsFiniteSet(s) /\ Cardinality(s) \in Nat /\ Cardinality(s) <= Cardinality(S)
         /\ \A x \in s : /\ s \ {x} \in SUBSET S
                         /\ Cardinality(s \ {x}) = Cardinality(s) - 1
         /\ s # {} => Pick(s) \in s /\ Cardinality(s) > 0
<1>1. IsFiniteSet(s) /\ Cardinality(s) <= Cardinality(S)
  BY FS_Subset
<1>2. Cardinality(s) \in Nat
  BY <1>1, FS_CardinalityType
<1>3. \A x \in s : Cardinality(s \ {x}) = Cardinality(s) - 1
  BY <1>1, FS_RemoveElement
<1>4. s # {} => Pick(s) \in s
  BY DEF Pick
<1>5. s # {} => Cardinality(s) > 0
  BY <1>1, <1>2, FS_EmptySet
<1> QED
  BY <1>1, <1>2, <1>3, <1>4, <1>5

\* There is one: the recursion is a fixed point after as many steps as S has
\* elements.
LEMMA SumExists ==
  ASSUME NEW S, IsFiniteSet(S), NEW f \in [S -> Int]
  PROVE  \E h \in [SUBSET S -> Int] : AddsUp(h, f, S)
<1>1. PICK R : R = [SUBSET S -> Int]
  OBVIOUS
<1>2. PICK next \in [R -> R] : next = [h \in R |-> [s \in SUBSET S |-> Adding(h, f, s)]]
  <2>1. ASSUME NEW h \in R, NEW s \in SUBSET S PROVE Adding(h, f, s) \in Int
    BY <1>1, SmallerSet DEF Adding
  <2> QED
    BY <1>1, <2>1
<1>3. PICK N \in Nat : N = Cardinality(S) + 1
  BY FS_CardinalityType
<1>4. PICK zero \in R : zero = [s \in SUBSET S |-> 0]
  <2>1. [s \in SUBSET S |-> 0] \in [SUBSET S -> Int]
    OBVIOUS
  <2> QED
    BY <1>1, <2>1
<1>5. PICK step \in [1..N -> [R -> R]] : step = [i \in 1..N |-> next]
  OBVIOUS
<1> DEFINE h == Iteration(R, zero, N, step)
<1>6. h \in [0..N -> R] /\ h[0] = zero /\ \A i \in 1..N : h[i] = step[i][h[i - 1]]
  BY Iterates
<1> HIDE DEF h
<1>7. \A i \in 1..N : \A s \in SUBSET S : h[i][s] = Adding(h[i - 1], f, s)
  <2>1. ASSUME NEW i \in 1..N, NEW s \in SUBSET S PROVE h[i][s] = Adding(h[i - 1], f, s)
    <3>1. h[i - 1] \in R
      BY <1>6
    <3>2. h[i] = [t \in SUBSET S |-> Adding(h[i - 1], f, t)]
      BY <1>2, <1>5, <1>6, <3>1
    <3> QED
      BY <3>2
  <2> QED
    BY <2>1
<1> DEFINE G == {i \in 0..N : \A s \in SUBSET S : Cardinality(s) < i => h[i][s] = Adding(h[i], f, s)}
<1>8. 0 \in G
  BY SmallerSet
<1>9. ASSUME NEW i \in 1..N, i - 1 \in G PROVE i \in G
  <2>1. ASSUME NEW s \in SUBSET S, Cardinality(s) < i PROVE h[i][s] = Adding(h[i], f, s)
    <3>1. CASE s = {}
      BY <1>7, <3>1 DEF Adding
    <3>2. CASE s # {}
      <4>1. PICK t \in SUBSET S : t = s \ {Pick(s)}
        OBVIOUS
      <4>2. Cardinality(t) < i - 1
        <5>1. Cardinality(t) = Cardinality(s) - 1 /\ Cardinality(s) \in Nat
          BY <3>2, <4>1, SmallerSet
        <5> QED
          BY <2>1, <5>1
      <4>3. h[i - 1][t] = Adding(h[i - 1], f, t)
        BY <1>9, <4>2
      <4>4. h[i][t] = h[i - 1][t]
        BY <1>7, <4>3
      <4>5. h[i][s] = Adding(h[i - 1], f, s)
        BY <1>7
      <4> QED
        BY <3>2, <4>1, <4>4, <4>5 DEF Adding
    <3> QED
      BY <3>1, <3>2
  <2> QED
    BY <2>1
<1>10. N \in G
  <2> HIDE DEF G
  <2>1. 0..N \subseteq G
    BY <1>8, <1>9, NaturalSteps
  <2> QED
    BY <2>1
<1>11. h[N] \in [SUBSET S -> Int]
  BY <1>1, <1>6
<1>12. \A s \in SUBSET S : Cardinality(s) < N
  BY <1>3, SmallerSet
<1> QED
  BY <1>10, <1>11, <1>12 DEF AddsUp

\* It depends on the values of f in the set only.
LEMMA SumUnique ==
  ASSUME NEW S, NEW U, NEW h, NEW g, NEW f, NEW e, AddsUp(h, f, S), AddsUp(g, e, U),
         NEW T, IsFiniteSet(T), T \subseteq S, T \subseteq U, \A x \in T : f[x] = e[x]
  PROVE  h[T] = g[T]
<1>1. PICK N \in Nat : N = Cardinality(T)
  BY FS_CardinalityType
<1> DEFINE G == {i \in 0..N : \A s \in SUBSET T : Cardinality(s) <= i => h[s] = g[s]}
<1>2. ASSUME NEW s \in SUBSET T, s # {}, h[s \ {Pick(s)}] = g[s \ {Pick(s)}] PROVE h[s] = g[s]
  <2>1. Pick(s) \in T
    BY <1>2, SmallerSet
  <2>2. h[s] = Adding(h, f, s) /\ g[s] = Adding(g, e, s)
    BY DEF AddsUp
  <2> QED
    BY <1>2, <2>1, <2>2 DEF Adding
<1>3. h[{}] = g[{}]
  BY DEF AddsUp, Adding
<1>4. 0 \in G
  <2>1. \A s \in SUBSET T : Cardinality(s) <= 0 => s = {}
    BY SmallerSet
  <2> QED
    BY <1>3, <2>1
<1>5. ASSUME NEW i \in 1..N, i - 1 \in G PROVE i \in G
  <2>1. ASSUME NEW s \in SUBSET T, Cardinality(s) <= i PROVE h[s] = g[s]
    <3>1. CASE s # {}
      <4>1. PICK t \in SUBSET T : t = s \ {Pick(s)}
        OBVIOUS
      <4>2. Cardinality(t) <= i - 1
        BY <2>1, <3>1, <4>1, SmallerSet
      <4> QED
        BY <1>2, <1>5, <3>1, <4>1, <4>2
    <3> QED
      BY <1>3, <3>1
  <2> QED
    BY <2>1
<1>6. N \in G
  <2> HIDE DEF G
  <2>1. 0..N \subseteq G
    BY <1>4, <1>5, NaturalSteps
  <2> QED
    BY <2>1
<1> QED
  BY <1>1, <1>6

\* The order in which the elements are picked does not matter.
Splits(h, f, s, x) == h[s] = f[x] + h[s \ {x}]

\* Whichever element is taken out first, the sum is the same.
LEMMA SumAnyOrder ==
  ASSUME NEW S, IsFiniteSet(S), NEW f \in [S -> Int], NEW h \in [SUBSET S -> Int],
         AddsUp(h, f, S), NEW x \in S
  PROVE  Splits(h, f, S, x)
<1>1. PICK N \in Nat : N = Cardinality(S)
  BY FS_CardinalityType
<1> DEFINE G == {i \in 0..N : \A s \in SUBSET S : Cardinality(s) <= i =>
                                 \A y \in s : h[s] = f[y] + h[s \ {y}]}
<1>2. 0 \in G
  BY SmallerSet
<1>3. ASSUME NEW i \in 1..N, i - 1 \in G PROVE i \in G
  <2>1. ASSUME NEW s \in SUBSET S, Cardinality(s) <= i, NEW y \in s
        PROVE  h[s] = f[y] + h[s \ {y}]
    <3>1. PICK p \in s : p = Pick(s)
      BY SmallerSet
    <3>2. h[s] = f[p] + h[s \ {p}]
      BY <3>1 DEF AddsUp, Adding
    <3>3. CASE y = p
      BY <3>2, <3>3
    <3>4. CASE y # p
      <4>1. /\ Cardinality(s \ {p}) <= i - 1 /\ s \ {p} \in SUBSET S /\ y \in s \ {p}
            /\ Cardinality(s \ {y}) <= i - 1 /\ s \ {y} \in SUBSET S /\ p \in s \ {y}
        BY <2>1, <3>4, SmallerSet
      <4>2. h[s \ {p}] = f[y] + h[(s \ {p}) \ {y}] /\ h[s \ {y}] = f[p] + h[(s \ {y}) \ {p}]
        BY <1>3, <4>1
      <4>3. PICK r \in SUBSET S : r = (s \ {p}) \ {y} /\ r = (s \ {y}) \ {p}
        OBVIOUS
      <4>4. f[p] \in Int /\ f[y] \in Int /\ h[r] \in Int
        OBVIOUS
      <4>5. h[s \ {p}] = f[y] + h[r] /\ h[s \ {y}] = f[p] + h[r]
        BY <4>2, <4>3
      <4> QED
        BY <3>2, <4>4, <4>5
    <3> QED
      BY <3>3, <3>4
  <2> QED
    BY <2>1
<1>4. N \in G
  <2> HIDE DEF G
  <2>1. 0..N \subseteq G
    BY <1>2, <1>3, NaturalSteps
  <2> QED
    BY <2>1
<1>5. S \in SUBSET S /\ Cardinality(S) <= N
  BY <1>1
<1> QED
  BY <1>4, <1>5 DEF Splits

\* What SumFunction of the library computes.
LEMMA SumIs ==
  ASSUME NEW S, IsFiniteSet(S), NEW f \in [S -> Int], NEW h \in [SUBSET S -> Int], AddsUp(h, f, S)
  PROVE  SumFunction(f) = h[S]
<1> DEFINE iter == CHOOSE g : g = [s \in SUBSET S |-> IF s = {} THEN 0 ELSE f[CHOOSE x \in s : TRUE] + g[s \ {CHOOSE x \in s : TRUE}]]
<1>1. h = [s \in SUBSET S |-> IF s = {} THEN 0 ELSE f[CHOOSE x \in s : TRUE] + h[s \ {CHOOSE x \in s : TRUE}]]
  BY DEF AddsUp, Adding, Pick
<1>2. iter = [s \in SUBSET S |-> IF s = {} THEN 0 ELSE f[CHOOSE x \in s : TRUE] + iter[s \ {CHOOSE x \in s : TRUE}]]
  BY <1>1
<1>3. SumFunction(f) = iter[S]
  BY DEF SumFunction, SumFunctionOnSet, FoldFunctionOnSet, MapThenFoldSet
<1> HIDE DEF iter
<1>4. AddsUp(iter, f, S)
  BY <1>2 DEF AddsUp, Adding, Pick
<1> QED
  BY <1>3, <1>4, SumUnique

\* The sum of nothing.
LEMMA SumEmpty ==
  ASSUME NEW f \in [{} -> Int]
  PROVE  SumFunction(f) = 0
<1>1. PICK h \in [SUBSET {} -> Int] : AddsUp(h, f, {})
  BY SumExists, FS_EmptySet
<1>2. h[{}] = 0
  BY <1>1 DEF AddsUp, Adding
<1> QED
  BY <1>1, <1>2, SumIs, FS_EmptySet

\* A sum with one element more.
LEMMA SumAdds ==
  ASSUME NEW S, IsFiniteSet(S), NEW x, x \notin S, NEW U, U = S \cup {x},
         NEW f \in [S -> Int], NEW g \in [U -> Int], \A s \in S : g[s] = f[s]
  PROVE  SumFunction(g) = SumFunction(f) + g[x] /\ SumFunction(f) \in Int
<1>1. IsFiniteSet(U) /\ U \ {x} = S /\ x \in U /\ S \subseteq U
  BY FS_AddElement
<1>2. PICK h \in [SUBSET S -> Int] : AddsUp(h, f, S)
  BY SumExists
<1>3. PICK e \in [SUBSET U -> Int] : AddsUp(e, g, U)
  BY <1>1, SumExists
<1>4. SumFunction(f) = h[S] /\ h[S] \in Int
  BY <1>2, SumIs
<1>5. SumFunction(g) = e[U]
  BY <1>1, <1>3, SumIs
<1>6. e[U] = g[x] + e[S]
  <2>1. Splits(e, g, U, x)
    BY <1>1, <1>3, SumAnyOrder
  <2> QED
    BY <1>1, <2>1 DEF Splits
<1>7. e[S] = h[S]
  BY <1>1, <1>2, <1>3, SumUnique
<1>8. g[x] \in Int
  BY <1>1
<1> QED
  BY <1>4, <1>5, <1>6, <1>7, <1>8

\* The sum over one element.
LEMMA SumOne ==
  ASSUME NEW x, NEW U, U = {x}, NEW g \in [U -> Int]
  PROVE  SumFunction(g) = g[x]
<1>1. IsFiniteSet(U)
  BY FS_Singleton
<1>2. PICK h \in [SUBSET U -> Int] : AddsUp(h, g, U)
  BY <1>1, SumExists
<1>3. Pick(U) = x /\ U \ {x} = {}
  BY DEF Pick
<1>4. h[U] = g[x] + h[{}] /\ h[{}] = 0
  BY <1>2, <1>3 DEF AddsUp, Adding
<1>5. g[x] \in Int
  OBVIOUS
<1>6. SumFunction(g) = h[U]
  BY <1>1, <1>2, SumIs
<1> QED
  BY <1>4, <1>5, <1>6

-----------------------------------------------------------------------------
(* What operations that merge add up to.  They add or raise integers or put *)
(* strings into a set; the other operations and types are left out.        *)

\* Operations that add or raise integers, or put strings into a set.
Plain(o) ==
  \/ o.op \in {"ADD", "MAX"} /\ o.value \in {"Integer"} \X (MinInt..MaxInt)
  \/ o.op = "UNION" /\ o.value \in {"StringSet"} \X SUBSET Strings

\* v is what the values f of a key come to.
Comes(op, f, v) ==
  \/ op = "ADD" /\ f \in [DOMAIN f -> Int] /\ v = Integer(SumFunction(f))
  \/ /\ op = "MAX" /\ f \in [DOMAIN f -> Int]
     /\ \E x \in DOMAIN f : v = Integer(f[x]) /\ \A y \in DOMAIN f : f[x] >= f[y]
  \/ /\ op = "UNION" /\ f \in [DOMAIN f -> SUBSET Strings]
     /\ v = StringSet(UNION Range(f))

\* The values of a key with one more.
Extended(f, x, v) == [y \in DOMAIN f \cup {x} |-> IF y = x THEN v ELSE f[y]]

\* What operations come to is the combination of their values.
LEMMA ComesTo ==
  ASSUME NEW op, NEW f, NEW v, Comes(op, f, v)
  PROVE  v = Combined(op, f)
<1>1. CASE op = "ADD"
  BY <1>1 DEF Comes, Combined
<1>2. CASE op = "UNION"
  BY <1>2 DEF Comes, Combined
<1>3. CASE op = "MAX"
  <2>1. PICK x \in DOMAIN f : v = Integer(f[x]) /\ \A y \in DOMAIN f : f[x] >= f[y]
    BY <1>3 DEF Comes
  <2>2. f \in [DOMAIN f -> Int]
    BY <1>3 DEF Comes
  <2>3. PICK m \in Int : m = f[x]
    BY <2>2
  <2>4. m \in Range(f) /\ \A y \in Range(f) : m >= y /\ y \in Int
    BY <2>1, <2>2, <2>3 DEF Range
  <2>5. Max(Range(f)) = m
    <3>1. \E n \in Range(f) : \A y \in Range(f) : n >= y
      BY <2>4
    <3>2. Max(Range(f)) \in Range(f) /\ \A y \in Range(f) : Max(Range(f)) >= y
      BY <3>1 DEF Max
    <3>3. PICK n : n = Max(Range(f))
      OBVIOUS
    <3>4. n \in Int /\ n >= m /\ m >= n
      BY <2>4, <3>2, <3>3
    <3> QED
      BY <3>3, <3>4
  <2> QED
    BY <1>3, <2>1, <2>3, <2>5 DEF Combined
<1> QED
  BY <1>1, <1>2, <1>3 DEF Comes

\* One operation comes to its own value.
LEMMA FirstComes ==
  ASSUME NEW o, Plain(o), NEW f, DOMAIN f = {}, NEW x
  PROVE  Comes(o.op, Extended(f, x, o.value[2]), o.value)
<1>1. PICK w : w = o.value[2]
  OBVIOUS
<1>2. PICK g : g = Extended(f, x, w)
  OBVIOUS
<1>3. DOMAIN g = {x} /\ g = [y \in {x} |-> w] /\ g[x] = w
  BY <1>2 DEF Extended
<1>4. CASE o.op \in {"ADD", "MAX"}
  <2>1. w \in Int /\ o.value = Integer(w)
    BY <1>1, <1>4, IntAssumption DEF Plain, Integer
  <2>2. g \in [DOMAIN g -> Int]
    BY <1>3, <2>1
  <2>3. CASE o.op = "MAX"
    BY <1>1, <1>2, <1>3, <2>1, <2>2, <2>3 DEF Comes
  <2>4. CASE o.op = "ADD"
    <3>1. PICK U : U = {x}
      OBVIOUS
    <3>2. g \in [U -> Int]
      BY <1>3, <2>1, <3>1
    <3>3. SumFunction(g) = w
      <4>1. SumFunction(g) = g[x]
        <5> HIDE <1>3, <2>2
        <5> QED
          BY <3>1, <3>2, SumOne
      <4> QED
        BY <1>3, <4>1
    <3> QED
      BY <1>1, <1>2, <2>1, <2>2, <2>4, <3>3 DEF Comes
  <2> QED
    BY <1>4, <2>3, <2>4
<1>5. CASE o.op = "UNION"
  <2>1. w \in SUBSET Strings /\ o.value = StringSet(w)
    BY <1>1, <1>5 DEF Plain, StringSet
  <2>2. g \in [DOMAIN g -> SUBSET Strings]
    BY <1>3, <2>1
  <2>3. UNION Range(g) = w
    BY <1>3 DEF Range
  <2>4. Comes("UNION", g, o.value)
    BY <2>1, <2>2, <2>3 DEF Comes
  <2> QED
    BY <1>1, <1>2, <1>5, <2>4
<1> QED
  BY <1>4, <1>5 DEF Plain

\* What merging a value in says of what they come to.
LEMMA MoreComes ==
  ASSUME NEW o, Plain(o), NEW f, IsFiniteSet(DOMAIN f), NEW v \in AlgebraicValue, Comes(o.op, f, v),
         NEW x, x \notin DOMAIN f, IsMerged(Merge(o.op, v, o.value))
  PROVE  Comes(o.op, Extended(f, x, o.value[2]), Merge(o.op, v, o.value).value)
<1>1. PICK w : w = o.value[2]
  OBVIOUS
<1>2. PICK g : g = Extended(f, x, w)
  OBVIOUS
<1>3. PICK S : S = DOMAIN f
  OBVIOUS
<1>4. PICK U : U = S \cup {x}
  OBVIOUS
<1>5. DOMAIN g = U /\ g = [y \in U |-> IF y = x THEN w ELSE f[y]] /\ x \in U /\ S \subseteq U
  BY <1>2, <1>3, <1>4 DEF Extended
<1>6. g[x] = w /\ (\A y \in S : g[y] = f[y]) /\ \A y \in U : y = x \/ y \in S
  BY <1>3, <1>4, <1>5
<1>7. CASE o.op \in {"ADD", "MAX"}
  <2>1. w \in Int /\ o.value = Integer(w)
    BY <1>1, <1>7, IntAssumption DEF Plain, Integer
  <2>2. f \in [S -> Int]
    BY <1>3, <1>7 DEF Comes
  <2>3. g \in [U -> Int]
    BY <1>3, <1>4, <1>5, <2>1, <2>2
  <2>4. CASE o.op = "ADD"
    <3>1. SumFunction(g) = SumFunction(f) + g[x] /\ SumFunction(f) \in Int
      <4> HIDE <1>5
      <4> QED
        BY <1>3, <1>4, <1>6, <2>2, <2>3, SumAdds
    <3>2. PICK a \in Int : a = SumFunction(f)
      BY <3>1
    <3>3. v = Integer(a)
      BY <2>4, <3>2 DEF Comes
    <3>4. Merge("ADD", v, o.value).value = Integer(a + w)
      BY <2>1, <2>4, <3>3 DEF Merge, MergeAdd, MergeNumbers, IsNumeric, IsNull, HaveType, Integer, IntegerSum,
         Merged, Conflict, IsMerged
    <3> QED
      BY <1>1, <1>2, <1>5, <1>6, <2>3, <2>4, <3>1, <3>2, <3>4 DEF Comes
  <2>5. CASE o.op = "MAX"
    <3>1. PICK z \in S : v = Integer(f[z]) /\ \A y \in S : f[z] >= f[y]
      BY <1>3, <2>5 DEF Comes
    <3>2. PICK a \in Int : a = f[z]
      BY <2>2
    <3>3. Merge("MAX", v, o.value).value = Integer(Upper(a, w))
      BY <2>1, <2>5, <3>1, <3>2 DEF Merge, MergeMax, MergeNumbers, IsNumeric, IsNull, HaveType, Integer,
         Merged, Conflict, IsMerged
    <3>4. \E y \in U : Upper(a, w) = g[y] /\ \A t \in U : g[y] >= g[t]
      <4>1. \A y \in S : g[y] \in Int /\ a >= g[y]
        BY <1>6, <2>2, <3>1, <3>2
      <4>2. CASE a >= w
        <5>1. Upper(a, w) = g[z] /\ z \in U
          BY <1>5, <1>6, <3>2, <4>2 DEF Upper
        <5>2. \A t \in U : g[z] >= g[t]
          BY <1>6, <2>1, <3>2, <4>1, <4>2
        <5> QED
          BY <5>1, <5>2
      <4>3. CASE ~(a >= w)
        <5>1. Upper(a, w) = g[x] /\ x \in U
          BY <1>5, <1>6, <4>3 DEF Upper
        <5>2. \A t \in U : g[x] >= g[t]
          BY <1>6, <2>1, <4>1, <4>3
        <5> QED
          BY <5>1, <5>2
      <4> QED
        BY <4>2, <4>3
    <3> QED
      BY <1>1, <1>2, <1>5, <2>3, <2>5, <3>3, <3>4 DEF Comes
  <2> QED
    BY <1>7, <2>4, <2>5
<1>8. CASE o.op = "UNION"
  <2>1. w \in SUBSET Strings /\ o.value = StringSet(w)
    BY <1>1, <1>8 DEF Plain, StringSet
  <2>2. f \in [S -> SUBSET Strings] /\ v = StringSet(UNION Range(f))
    BY <1>3, <1>8 DEF Comes
  <2>3. PICK a : a = UNION Range(f)
    OBVIOUS
  <2>4. g \in [U -> SUBSET Strings]
    BY <1>3, <1>4, <1>5, <2>1, <2>2
  <2>5. UNION Range(g) = a \cup w
    <3>1. Range(g) = Range(f) \cup {w}
      BY <1>3, <1>4, <1>5, <1>6 DEF Range
    <3> QED
      BY <2>3, <3>1
  <2>6. Merge("UNION", v, o.value).value = StringSet(a \cup w)
    BY <2>1, <2>2, <2>3 DEF Merge, MergeUnion, IsNull, HaveType, StringSet, Merged
  <2>7. Comes("UNION", g, StringSet(a \cup w))
    BY <1>5, <2>4, <2>5 DEF Comes
  <2> QED
    BY <1>1, <1>2, <1>8, <2>6, <2>7
<1> QED
  BY <1>7, <1>8 DEF Plain

\* What a state says of a key that the operations in h were merged into.
ValuesOf(h) == [x \in DOMAIN h |-> h[x].value[2]]
KeyHolds(s, k, h) ==
  /\ k \in DOMAIN s <=> DOMAIN h # {}
  /\ k \in DOMAIN s => /\ \A x \in DOMAIN h : h[x].op = s[k].op
                       /\ Comes(s[k].op, ValuesOf(h), s[k].value)

\* The operations with one more.
With(h, x, o) == [y \in DOMAIN h \cup {x} |-> IF y = x THEN o ELSE h[y]]

\* An operation that merges is one more that the value of its key comes to.
LEMMA ApplyExtends ==
  ASSUME NEW s \in States, NEW o \in AlgebraicOperation, Plain(o), ApplyOperation(s, o).ok,
         NEW h, IsFiniteSet(DOMAIN h), KeyHolds(s, o.key, h), NEW x, x \notin DOMAIN h
  PROVE  KeyHolds(ApplyOperation(s, o).state, o.key, With(h, x, o))
<1>1. PICK k, z : k = o.key /\ z = ApplyOperation(s, o).state
  OBVIOUS
<1>2. PICK g : g = With(h, x, o)
  OBVIOUS
<1>3. /\ ValuesOf(g) = Extended(ValuesOf(h), x, o.value[2]) /\ DOMAIN g = DOMAIN h \cup {x}
      /\ g[x] = o /\ (\A y \in DOMAIN h : g[y] = h[y]) /\ DOMAIN ValuesOf(h) = DOMAIN h
  BY <1>2 DEF ValuesOf, With, Extended
<1>4. CASE k \notin DOMAIN s
  <2>1. k \in DOMAIN z /\ z[k].op = o.op /\ z[k].value = o.value
    BY <1>1, <1>4 DEF ApplyOperation, Merged, IsMerged
  <2>2. DOMAIN h = {}
    BY <1>1, <1>4 DEF KeyHolds
  <2>3. Comes(o.op, ValuesOf(g), o.value)
    BY <1>3, <2>2, FirstComes
  <2> QED
    BY <1>1, <1>2, <1>3, <2>1, <2>2, <2>3 DEF KeyHolds
<1>5. CASE k \in DOMAIN s
  <2>1. /\ s[k].op = o.op /\ IsMerged(Merge(o.op, s[k].value, o.value))
        /\ k \in DOMAIN z /\ z[k].op = o.op /\ z[k].value = Merge(o.op, s[k].value, o.value).value
    BY <1>1, <1>5 DEF ApplyOperation, Conflict, IsMerged
  <2>2. PICK v \in AlgebraicValue : v = s[k].value
    BY <1>5 DEF States
  <2>3. (\A y \in DOMAIN h : h[y].op = o.op) /\ Comes(o.op, ValuesOf(h), v)
    BY <1>1, <1>5, <2>1, <2>2 DEF KeyHolds
  <2>4. PICK f : f = ValuesOf(h)
    OBVIOUS
  <2>5. Comes(o.op, Extended(f, x, o.value[2]), Merge(o.op, v, o.value).value)
    <3>1. IsFiniteSet(DOMAIN f) /\ Comes(o.op, f, v) /\ x \notin DOMAIN f /\ IsMerged(Merge(o.op, v, o.value))
      BY <1>3, <2>1, <2>2, <2>3, <2>4
    <3> QED
      BY <3>1, MoreComes
  <2>6. Comes(z[k].op, ValuesOf(g), z[k].value)
    BY <1>3, <2>1, <2>2, <2>4, <2>5
  <2>7. \A y \in DOMAIN g : g[y].op = z[k].op
    BY <1>3, <2>1, <2>3
  <2> QED
    BY <1>1, <1>2, <1>3, <2>1, <2>6, <2>7 DEF KeyHolds
<1> QED
  BY <1>4, <1>5

\* It leaves the other keys alone.
LEMMA ApplyLeaves ==
  ASSUME NEW s \in States, NEW o, NEW k, k # o.key, NEW h, KeyHolds(s, k, h)
  PROVE  KeyHolds(ApplyOperation(s, o).state, k, h)
<1>1. PICK z : z = ApplyOperation(s, o).state
  OBVIOUS
<1>2. (k \in DOMAIN z <=> k \in DOMAIN s) /\ (k \in DOMAIN s => z[k] = s[k])
  BY <1>1 DEF ApplyOperation
<1> QED
  BY <1>1, <1>2 DEF KeyHolds

\* The operations that are done all merged.
LEMMA DoneMerge ==
  ASSUME NEW s, NEW u, u.operations \in Seq(AlgebraicOperation),
         NEW j \in 1..ApplyUpdateToState(s, u).done
  PROVE  ApplyOperation(StatesAfter(s, u.operations)[j - 1], u.operations[j]).ok
<1> DEFINE ops == u.operations
           after == StatesAfter(s, ops)
           ok == [i \in DOMAIN ops |-> ApplyOperation(after[i - 1], ops[i]).ok]
           merged == {i \in DOMAIN ops : \A n \in 1..i : ok[n]}
<1>1. PICK N \in Nat : N = Len(ops) /\ DOMAIN ops = 1..N
  OBVIOUS
<1>2. ApplyUpdateToState(s, u).done = Cardinality(merged)
  <2>1. merged = {i \in DOMAIN ops : \A n \in 1..i : ApplyOperation(after[n - 1], ops[n]).ok}
    <3>1. \A i \in 1..N : \A n \in 1..i : n \in 1..N
      OBVIOUS
    <3> HIDE DEF after, ops
    <3> QED
      BY <1>1, <3>1
  <2> QED
    BY <2>1 DEF ApplyUpdateToState
<1>3. j \in DOMAIN ops
  BY <1>1, ApplyCounts
<1> HIDE DEF ok
<1>4. ok[j]
  <2> SUFFICES ASSUME ~ok[j] PROVE FALSE
    OBVIOUS
  <2>0. PICK m \in Nat : m = j - 1
    BY <1>1, <1>3
  <2>1. merged \subseteq 1..m
    <3>1. \A i \in merged : i \in 1..N /\ ~(j <= i)
      BY <1>1, <1>3
    <3> QED
      BY <1>1, <1>3, <2>0, <3>1
  <2> HIDE DEF merged
  <2>2. IsFiniteSet(1..m) /\ Cardinality(1..m) = m
    BY FS_Interval
  <2>3. Cardinality(merged) <= m /\ Cardinality(merged) \in Nat
    BY <2>1, <2>2, FS_Subset, FS_CardinalityType
  <2> QED
    BY <1>1, <1>2, <1>3, <2>0, <2>3
<1> QED
  BY <1>3, <1>4 DEF ok

\* A sum of N numbers that are B at most, both ways, is N * B at most.
Within(i, B) == -B <= i /\ i <= B

\* Few modest numbers have a modest sum.
LEMMA SumBounded ==
  ASSUME NEW S, IsFiniteSet(S), NEW f \in [S -> Int], NEW B \in Nat, \A x \in S : Within(f[x], B),
         NEW N \in Nat, Cardinality(S) <= N
  PROVE  SumFunction(f) \in Int /\ Within(SumFunction(f), N * B)
<1>1. PICK h \in [SUBSET S -> Int] : AddsUp(h, f, S)
  BY SumExists
<1>2. SumFunction(f) = h[S]
  BY <1>1, SumIs
<1> DEFINE G == {i \in 0..N : \A s \in SUBSET S : Cardinality(s) <= i => Within(h[s], i * B)}
<1>3. h[{}] = 0
  BY <1>1 DEF AddsUp, Adding
<1>4. 0 \in G
  <2>1. ASSUME NEW s \in SUBSET S, Cardinality(s) <= 0 PROVE s = {}
    <3>1. Cardinality(s) \in Nat /\ (s # {} => Cardinality(s) > 0)
      BY SmallerSet
    <3> QED
      BY <2>1, <3>1
  <2>2. Within(0, 0 * B)
    BY DEF Within
  <2>3. \A s \in SUBSET S : Cardinality(s) <= 0 => Within(h[s], 0 * B)
    BY <1>3, <2>1, <2>2
  <2>4. 0 \in 0..N
    OBVIOUS
  <2> QED
    BY <2>3, <2>4
<1>5. ASSUME NEW i \in 1..N, i - 1 \in G PROVE i \in G
  <2>1. PICK a \in Int : a = (i - 1) * B
    OBVIOUS
  <2>2. i * B = a + B
    BY <2>1
  <2>3. ASSUME NEW s \in SUBSET S, Cardinality(s) <= i PROVE Within(h[s], i * B)
    <3>1. CASE s = {}
      <4>1. 0 <= i * B
        BY <2>2
      <4> QED
        BY <1>3, <3>1, <4>1 DEF Within
    <3>2. CASE s # {}
      <4>1. PICK x \in S : x = Pick(s)
        BY <3>2, SmallerSet
      <4>2. PICK t \in SUBSET S : t = s \ {x}
        OBVIOUS
      <4>3. Cardinality(t) <= i - 1
        <5>1. Cardinality(t) = Cardinality(s) - 1 /\ Cardinality(s) \in Nat
          BY <3>2, <4>1, <4>2, SmallerSet
        <5> QED
          BY <2>3, <5>1
      <4>4. Within(h[t], a)
        BY <1>5, <2>1, <4>3
      <4>5. h[s] = f[x] + h[t]
        BY <1>1, <3>2, <4>1, <4>2 DEF AddsUp, Adding
      <4>6. f[x] \in Int /\ h[t] \in Int /\ Within(f[x], B)
        OBVIOUS
      <4> QED
        BY <2>2, <4>4, <4>5, <4>6 DEF Within
    <3> QED
      BY <3>1, <3>2
  <2> QED
    BY <2>3
<1>6. N \in G
  <2> HIDE DEF G
  <2>1. 0..N \subseteq G
    BY <1>4, <1>5, NaturalSteps
  <2> QED
    BY <2>1
<1>7. S \in SUBSET S
  OBVIOUS
<1> QED
  BY <1>2, <1>6, <1>7

\* A plain operation of the same type merges, unless a sum overflows.
LEMMA PlainMerges ==
  ASSUME NEW o, Plain(o), NEW f, NEW v \in AlgebraicValue, Comes(o.op, f, v),
         o.op = "ADD" => /\ SumFunction(f) \in Int
                         /\ SumFunction(f) + o.value[2] \in MinInt..MaxInt
  PROVE  IsMerged(Merge(o.op, v, o.value))
<1>1. PICK w : w = o.value[2]
  OBVIOUS
<1>2. CASE o.op = "ADD"
  <2>1. w \in Int /\ o.value = Integer(w)
    BY <1>1, <1>2, IntAssumption DEF Plain, Integer
  <2>2. PICK a \in Int : a = SumFunction(f)
    BY <1>2
  <2>3. v = Integer(a)
    BY <1>2, <2>2 DEF Comes
  <2>4. a + w \in MinInt..MaxInt
    BY <1>1, <1>2, <2>2
  <2> QED
    BY <1>2, <2>1, <2>3, <2>4 DEF Merge, MergeAdd, MergeNumbers, IsNumeric, IsNull, HaveType, Integer,
       IntegerSum, Merged, IsMerged
<1>3. CASE o.op = "MAX"
  <2>1. w \in MinInt..MaxInt /\ o.value = Integer(w)
    BY <1>1, <1>3 DEF Plain, Integer
  <2>2. PICK a : v = Integer(a)
    BY <1>3 DEF Comes
  <2>3. a \in MinInt..MaxInt
    BY <2>2, ValueTypes DEF Integer
  <2>4. Upper(a, w) \in MinInt..MaxInt
    BY <2>1, <2>3 DEF Upper
  <2> QED
    BY <1>3, <2>1, <2>2, <2>4 DEF Merge, MergeMax, MergeNumbers, IsNumeric, IsNull, HaveType, Integer,
       Merged, IsMerged
<1>4. CASE o.op = "UNION"
  <2>1. o.value = StringSet(w)
    BY <1>1, <1>4 DEF Plain, StringSet
  <2>2. PICK a : v = StringSet(a)
    BY <1>4 DEF Comes
  <2> QED
    BY <1>4, <2>1, <2>2 DEF Merge, MergeUnion, IsNull, HaveType, StringSet, Merged, IsMerged
<1> QED
  BY <1>2, <1>3, <1>4 DEF Plain

\* Numbers that are small enough for N of them to be added up.
Fitting(N, B) == N * B <= MaxInt /\ N * B <= -MinInt
Modest(o, B) == o.op = "ADD" => Within(o.value[2], B)

\* Whatever N operations of one type are tried on a key, they all merge.
LEMMA ModestMerges ==
  ASSUME NEW s \in States, NEW o \in AlgebraicOperation, Plain(o), NEW h, IsFiniteSet(DOMAIN h),
         KeyHolds(s, o.key, h), NEW x, x \notin DOMAIN h, NEW N \in Nat, NEW B \in Nat, Fitting(N, B),
         Cardinality(DOMAIN h) + 1 <= N, Modest(o, B),
         \A y \in DOMAIN h : h[y].op = o.op /\ Modest(h[y], B)
  PROVE  ApplyOperation(s, o).ok
<1>1. PICK k : k = o.key
  OBVIOUS
<1>2. CASE k \notin DOMAIN s
  BY <1>1, <1>2 DEF ApplyOperation, Merged, IsMerged
<1>3. CASE k \in DOMAIN s
  <2>1. PICK v \in AlgebraicValue : v = s[k].value
    BY <1>3 DEF States
  <2>2. PICK f : f = ValuesOf(h)
    OBVIOUS
  <2>3. s[k].op = o.op /\ Comes(o.op, f, v)
    BY <1>1, <1>3, <2>1, <2>2 DEF KeyHolds
  <2>4. ASSUME o.op = "ADD"
        PROVE  SumFunction(f) \in Int /\ SumFunction(f) + o.value[2] \in MinInt..MaxInt
    <3>1. PICK S : S = DOMAIN h
      OBVIOUS
    <3>2. f \in [S -> Int] /\ \A y \in S : Within(f[y], B)
      <4>1. DOMAIN f = S /\ f \in [DOMAIN f -> Int] /\ \A y \in S : f[y] = h[y].value[2]
        BY <2>2, <2>3, <2>4, <3>1 DEF Comes, ValuesOf
      <4> QED
        BY <2>4, <3>1, <4>1 DEF Modest
    <3>3. PICK C \in Nat : C = N - 1 /\ Cardinality(S) <= C
      <4>1. Cardinality(S) \in Nat
        BY <3>1, FS_CardinalityType
      <4> QED
        BY <3>1, <4>1
    <3>4. SumFunction(f) \in Int /\ Within(SumFunction(f), C * B)
      BY <3>1, <3>2, <3>3, SumBounded
    <3>5. PICK a \in Int : a = SumFunction(f)
      BY <3>4
    <3>6. PICK w \in Int : w = o.value[2] /\ Within(w, B)
      BY <2>4, IntAssumption DEF Plain, Modest
    <3>7. PICK c \in Int : c = C * B
      OBVIOUS
    <3>8. N * B = c + B
      BY <3>3, <3>7
    <3>9. a + w \in MinInt..MaxInt
      <4>1. Within(a, c)
        BY <3>4, <3>5, <3>7
      <4> QED
        BY <3>6, <3>8, <4>1, IntAssumption DEF Within, Fitting
    <3> QED
      BY <3>4, <3>5, <3>6, <3>9
  <2>5. IsMerged(Merge(o.op, v, o.value))
    BY <2>3, <2>4, PlainMerges
  <2> QED
    BY <1>1, <1>3, <2>1, <2>3, <2>5 DEF ApplyOperation
<1> QED
  BY <1>2, <1>3

-----------------------------------------------------------------------------
(* Algorithms: what the arguments are.                                      *)

\* Each argument is of its domain.
ArgumentsTyped ==
  /\ subject \in DOMAIN Domains
  /\ input \in Seq(UNION {Domains[subject][i] : i \in 1..Len(Domains[subject])})
  /\ Len(input) <= Len(Domains[subject])
  /\ \A i \in 1..Len(input) : input[i] \in Domains[subject][i]

\* The arguments are chosen of their domains, one after the other.
THEOREM ArgumentsCorrect == ArgumentsSpec => []ArgumentsTyped
<1>1. ASSUME NoArguments PROVE ArgumentsTyped
  <2>1. Len(Domains[subject]) \in Nat
    BY <1>1, DomainsAssumption DEF NoArguments
  <2> QED
    BY <1>1, <2>1 DEF NoArguments, ArgumentsTyped
<1>2. ASSUME ArgumentsTyped, [ChooseArgument]_arguments PROVE ArgumentsTyped'
  <2>1. CASE ChooseArgument
    <3>1. PICK S : S = UNION {Domains[subject][i] : i \in 1..Len(Domains[subject])}
      OBVIOUS
    <3>2. PICK n \in Nat, m \in Nat : n = Len(input) /\ m = Len(Domains[subject])
      BY <1>2, DomainsAssumption DEF ArgumentsTyped
    <3>3. PICK x \in Domains[subject][n + 1] : input' = Append(input, x)
      BY <2>1, <3>2 DEF ChooseArgument
    <3>4. n < m /\ subject' = subject
      BY <2>1, <3>2 DEF ChooseArgument
    <3>5. x \in S
      BY <3>1, <3>2, <3>3, <3>4
    <3>6. input \in Seq(S) /\ \A i \in 1..n : input[i] \in Domains[subject][i]
      BY <1>2, <3>1, <3>2 DEF ArgumentsTyped
    <3>7. /\ input' \in Seq(S) /\ Len(input') = n + 1
          /\ \A i \in 1..n : input'[i] = input[i]
          /\ input'[n + 1] = x
      BY <3>2, <3>3, <3>5, <3>6
    <3>8. \A i \in 1..(n + 1) : input'[i] \in Domains[subject][i]
      BY <3>3, <3>6, <3>7
    <3>9. subject' \in DOMAIN Domains
      BY <1>2, <3>4 DEF ArgumentsTyped
    <3>10. S = UNION {Domains[subject'][i] : i \in 1..Len(Domains[subject'])}
      BY <3>1, <3>4
    <3>11. Len(input') <= Len(Domains[subject'])
      BY <3>2, <3>4, <3>7
    <3> QED
      BY <3>4, <3>7, <3>8, <3>9, <3>10, <3>11 DEF ArgumentsTyped
  <2>2. CASE UNCHANGED arguments
    BY <1>2, <2>2 DEF ArgumentsTyped, arguments
  <2> QED
    BY <1>2, <2>1, <2>2
<1> QED
  BY <1>1, <1>2, PTL DEF ArgumentsSpec

\* What is chosen when the arguments of a subject with N of them are complete.
LEMMA ArgumentsGiven ==
  ASSUME NEW s, NEW N, Len(Domains[s]) = N, ArgumentsTyped, Given(s)
  PROVE  \A i \in 1..N : input[i] \in Domains[s][i]
BY DEF ArgumentsTyped, Given

-----------------------------------------------------------------------------
(* Clocks *)

\* Three clocks.
ClockDomains ==
  /\ Len(Domains["clocks"]) = 3
  /\ \A i \in 1..3 : \A c \in Domains["clocks"][i] : IsClock(c)

\* Clocks are a lattice, whatever nodes there are and whatever they count.
THEOREM ClocksCorrect ==
  ASSUME ClockDomains
  PROVE  ArgumentsSpec => []ClockLaws
<1>1. ASSUME ArgumentsTyped PROVE ClockLaws
  <2> SUFFICES ASSUME Given("clocks")
               PROVE  /\ CompareIsPartialOrder(input[1], input[2], input[3])
                      /\ ClockMergeIsJoin(input[1], input[2], input[3])
    BY DEF ClockLaws
  <2>1. IsClock(input[1]) /\ IsClock(input[2]) /\ IsClock(input[3])
    <3>1. \A i \in 1..3 : input[i] \in Domains["clocks"][i]
      BY <1>1, ArgumentsGiven DEF ClockDomains
    <3> QED
      BY <3>1 DEF ClockDomains
  <2> QED
    BY <2>1, ClocksAreLattice
<1> QED
  BY <1>1, ArgumentsCorrect, PTL

-----------------------------------------------------------------------------
(* Merges *)

\* A representable number is its own nearest float.
LEMMA NearestExact ==
  ASSUME NEW n \in FloatValues
  PROVE  Nearest(n, 1) = n
<1>1. n \in Int /\ \A g \in FloatValues : g \in Int /\ g * 1 = g
  BY FloatAssumption
<1>2. PICK closest : closest = {f \in FloatValues :
                       \A g \in FloatValues : Distance(f * 1, n) <= Distance(g * 1, n)}
  OBVIOUS
<1>3. \A g \in FloatValues : Distance(n * 1, n) <= Distance(g * 1, n)
  BY <1>1 DEF Distance
<1>4. \A f \in FloatValues : Distance(f * 1, n) <= Distance(n * 1, n) => f = n
  BY <1>1 DEF Distance
<1>5. closest = {n}
  BY <1>2, <1>3, <1>4
<1> QED
  BY <1>2, <1>5 DEF Nearest

\* The floats at the edges of the integers: the least integer is one (-2^63),
\* an odd number of halves is so small that the integer below it is one too,
\* and the greatest integer has a nearest one (2^63).
FloatEdges ==
  /\ 2 * MinInt \in FloatValues
  /\ \A h \in FloatValues : h % 2 = 1 => h - 1 \in FloatValues
  /\ \A g \in FloatValues : Distance(ToFloat(MaxInt), 2 * MaxInt) <= Distance(g, 2 * MaxInt)

\* A value becomes a float only when it is one.
LEMMA AsFloatExact ==
  ASSUME FloatsCoverIntegers, FloatEdges, NEW i \in MinInt..MaxInt, i # MaxInt, ToInteger(ToFloat(i)) = i
  PROVE  ToFloat(i) = 2 * i
<1>1. PICK f \in Int : f = ToFloat(i) /\ f \in FloatValues
  BY FloatAssumption DEF FloatsCoverIntegers
<1>2. i \in Int /\ 2 * i \in Int
  BY IntAssumption
<1>3. ASSUME 2 * i \in FloatValues PROVE f = 2 * i
  BY <1>1, <1>3, NearestExact DEF ToFloat
<1>4. CASE i = MinInt
  BY <1>1, <1>3, <1>4 DEF FloatEdges
<1>5. CASE i # MinInt
  <2>1. f \div 2 = i
    BY <1>1, <1>2, <1>5, IntAssumption DEF ToInteger
  <2>2. f = 2 * i \/ (f % 2 = 1 /\ f - 1 = 2 * i)
    BY <1>1, <1>2, <2>1
  <2> QED
    BY <1>1, <1>3, <2>2 DEF FloatEdges
<1> QED
  BY <1>1, <1>4, <1>5

\* An integral float is an integer, but for 2^63.
LEMMA AsIntegerExact ==
  ASSUME FloatsCoverIntegers, FloatEdges, NEW h \in FloatValues, FitsInteger(h), h # ToFloat(MaxInt)
  PROVE  2 * ToInteger(h) = h
<1>1. PICK f \in Int : f = ToFloat(MaxInt) /\ f \in FloatValues
  <2>1. MaxInt \in MinInt..MaxInt
    BY IntAssumption
  <2>2. ToFloat(MaxInt) \in FloatValues
    BY <2>1 DEF FloatsCoverIntegers
  <2> QED
    BY <2>2, FloatAssumption
<1>2. h \in Int /\ MinInt \in Int /\ MaxInt \in Int /\ MinInt < MaxInt
  BY FloatAssumption, IntAssumption
<1>3. ToFloat(MinInt) = 2 * MinInt
  <2>1. PICK m \in FloatValues : m = 2 * MinInt
    BY DEF FloatEdges
  <2> QED
    BY <2>1, NearestExact DEF ToFloat
<1>4. h % 2 = 0 /\ 2 * MinInt <= h /\ h < f
  BY <1>1, <1>2, <1>3 DEF FitsInteger
<1>5. Distance(f, 2 * MaxInt) <= Distance(h, 2 * MaxInt)
  BY <1>1 DEF FloatEdges
<1>6. h <= 2 * MaxInt
  BY <1>1, <1>2, <1>4, <1>5 DEF Distance
<1>7. PICK k \in Int : k = h \div 2 /\ h = 2 * k
  BY <1>2, <1>4
<1>8. MinInt <= k /\ k <= MaxInt
  BY <1>2, <1>4, <1>6, <1>7
<1>9. ToInteger(h) = k
  BY <1>2, <1>7, <1>8 DEF ToInteger
<1> QED
  BY <1>7, <1>9

\* Values of one type, merged.
LEMMA IntegersMerge ==
  ASSUME NEW i \in MinInt..MaxInt, NEW j \in MinInt..MaxInt
  PROVE  /\ Merge("MAX", Integer(i), Integer(j)) = Merged(Integer(Upper(i, j)))
         /\ Merge("MIN", Integer(i), Integer(j)) = Merged(Integer(Lower(i, j)))
         /\ Merge("UNION", Integer(i), Integer(j)) = TypeMismatch
         /\ Merge("INTERSECT", Integer(i), Integer(j)) = TypeMismatch
         /\ Merge("ADD", Integer(i), Integer(j))
              = IF i + j \in MinInt..MaxInt THEN Merged(Integer(i + j)) ELSE Conflict
         /\ Merge("MULTIPLY", Integer(i), Integer(j))
              = IF i * j \in MinInt..MaxInt THEN Merged(Integer(i * j)) ELSE Conflict
<1>1. Upper(i, j) \in MinInt..MaxInt /\ Lower(i, j) \in MinInt..MaxInt
  BY DEF Upper, Lower
<1>2. PICK v : v = Integer(i)
  OBVIOUS
<1>3. PICK w : w = Integer(j)
  OBVIOUS
<1>4. v[1] = "Integer" /\ v[2] = i /\ w[1] = "Integer" /\ w[2] = j
  BY <1>2, <1>3 DEF Integer
<1>5. /\ Merge("MAX", v, w) = MergeNumbers(v, w, Upper, Upper)
      /\ Merge("MIN", v, w) = MergeNumbers(v, w, Lower, Lower)
      /\ Merge("UNION", v, w) = TypeMismatch
      /\ Merge("INTERSECT", v, w) = TypeMismatch
      /\ Merge("ADD", v, w) = MergeNumbers(v, w, IntegerSum, FloatSum)
      /\ Merge("MULTIPLY", v, w) = MergeNumbers(v, w, IntegerProduct, FloatProduct)
  BY <1>4 DEF Merge, MergeMax, MergeMin, MergeUnion, MergeIntersect, MergeAdd, MergeMultiply,
              IsNull, IsNumeric, HaveType
<1> QED
  BY <1>1, <1>2, <1>3, <1>4, <1>5 DEF MergeNumbers, HaveType, IntegerSum, IntegerProduct

\* How floats merge where they merge exactly.
LEMMA FloatsMerge ==
  ASSUME NEW g \in FloatValues, NEW h \in FloatValues
  PROVE  /\ Merge("MAX", Float(g), Float(h)) = Merged(Float(Upper(g, h)))
         /\ Merge("MIN", Float(g), Float(h)) = Merged(Float(Lower(g, h)))
         /\ Merge("UNION", Float(g), Float(h)) = TypeMismatch
         /\ Merge("INTERSECT", Float(g), Float(h)) = TypeMismatch
<1>2. PICK v : v = Float(g)
  OBVIOUS
<1>3. PICK w : w = Float(h)
  OBVIOUS
<1>4. v[1] = "Float" /\ v[2] = g /\ w[1] = "Float" /\ w[2] = h
  BY <1>2, <1>3 DEF Float
<1>5. /\ Merge("MAX", v, w) = MergeNumbers(v, w, Upper, Upper)
      /\ Merge("MIN", v, w) = MergeNumbers(v, w, Lower, Lower)
      /\ Merge("UNION", v, w) = TypeMismatch
      /\ Merge("INTERSECT", v, w) = TypeMismatch
  BY <1>4 DEF Merge, MergeMax, MergeMin, MergeUnion, MergeIntersect, IsNull, IsNumeric, HaveType
<1> QED
  BY <1>2, <1>3, <1>4, <1>5 DEF MergeNumbers, HaveType, FloatOf

\* A set, by its tag.
SetOf(type, s) == <<type, s>>

MergesSets(type, s, t) ==
  /\ Merge("MAX", SetOf(type, s), SetOf(type, t)) = TypeMismatch
  /\ Merge("MIN", SetOf(type, s), SetOf(type, t)) = TypeMismatch
  /\ Merge("UNION", SetOf(type, s), SetOf(type, t)) = Merged(SetOf(type, s \cup t))
  /\ Merge("INTERSECT", SetOf(type, s), SetOf(type, t)) = Merged(SetOf(type, s \cap t))

\* How sets merge.
LEMMA SetsMerge ==
  ASSUME NEW type \in {"StringSet", "IntSet"}, NEW s, NEW t
  PROVE  MergesSets(type, s, t)
<1>2. PICK v : v = <<type, s>>
  OBVIOUS
<1>3. PICK w : w = <<type, t>>
  OBVIOUS
<1>4. v[1] = type /\ v[2] = s /\ w[1] = type /\ w[2] = t
  BY <1>2, <1>3
<1>5. /\ Merge("MAX", v, w) = TypeMismatch
      /\ Merge("MIN", v, w) = TypeMismatch
      /\ Merge("UNION", v, w) = Merged(<<type, s \cup t>>)
      /\ Merge("INTERSECT", v, w) = Merged(<<type, s \cap t>>)
  BY <1>4 DEF Merge, MergeMax, MergeMin, MergeUnion, MergeIntersect, IsNull, IsNumeric, HaveType,
              StringSet, IntSet
<1> QED
  BY <1>2, <1>3, <1>5 DEF SetOf, MergesSets

\* How Booleans merge.
LEMMA BooleansMerge ==
  ASSUME NEW a \in BOOLEAN, NEW b \in BOOLEAN
  PROVE  /\ Merge("MAX", Boolean(a), Boolean(b)) = Merged(Boolean(a \/ b))
         /\ Merge("MIN", Boolean(a), Boolean(b)) = Merged(Boolean(a /\ b))
         /\ Merge("UNION", Boolean(a), Boolean(b)) = Merged(Boolean(a \/ b))
         /\ Merge("INTERSECT", Boolean(a), Boolean(b)) = Merged(Boolean(a /\ b))
<1>2. PICK v : v = Boolean(a)
  OBVIOUS
<1>3. PICK w : w = Boolean(b)
  OBVIOUS
<1>4. v[1] = "Boolean" /\ v[2] = a /\ w[1] = "Boolean" /\ w[2] = b
  BY <1>2, <1>3 DEF Boolean
<1>5. /\ Merge("MAX", v, w) = Merged(Boolean(v[2] \/ w[2]))
      /\ Merge("MIN", v, w) = Merged(Boolean(v[2] /\ w[2]))
      /\ Merge("UNION", v, w) = Merged(Boolean(v[2] \/ w[2]))
      /\ Merge("INTERSECT", v, w) = Merged(Boolean(v[2] /\ w[2]))
  BY <1>4 DEF Merge, MergeMax, MergeMin, MergeUnion, MergeIntersect, IsNull, IsNumeric, HaveType
<1> QED
  BY <1>2, <1>3, <1>4, <1>5

\* What grouping asks of an operation and three values.
Grouped(op, u, v, w) ==
  LET left == Merge(op, u, v)
      right == Merge(op, v, w)
      leftmost == Merge(op, left.value, w)
      rightmost == Merge(op, u, right.value)
  IN CASE op \in Semilattice ->
            /\ Merge(op, u, u) \in {Merged(u), TypeMismatch}
            /\ IsMerged(left) = IsMerged(right)
            /\ IsMerged(left) => leftmost = rightmost
       [] op \in Abelian /\ u[1] = "Integer" ->
            IsMerged(left) /\ IsMerged(right) /\ IsMerged(leftmost) /\ IsMerged(rightmost)
              => leftmost = rightmost
       [] OTHER -> TRUE

\* What becomes of two results an operation merges to.
LEMMA ResultsGroup ==
  ASSUME NEW op \in Semilattice, NEW u, NEW v, NEW w, NEW l, NEW r, NEW all,
         Merge(op, u, u) = Merged(u), Merge(op, u, v) = Merged(l), Merge(op, v, w) = Merged(r),
         Merge(op, l, w) = Merged(all), Merge(op, u, r) = Merged(all)
  PROVE  Grouped(op, u, v, w)
BY DEF Grouped, Merged, IsMerged

\* What never merges is grouped either way.
LEMMA MismatchesGroup ==
  ASSUME NEW op \in Semilattice, NEW u, NEW v, NEW w,
         Merge(op, u, u) = TypeMismatch, Merge(op, u, v) = TypeMismatch, Merge(op, v, w) = TypeMismatch
  PROVE  Grouped(op, u, v, w)
BY DEF Grouped, TypeMismatch, IsMerged

\* Integers are grouped either way, overflow notwithstanding.
LEMMA IntegersGroup ==
  ASSUME NEW op \in OpType,
         NEW i \in MinInt..MaxInt, NEW j \in MinInt..MaxInt, NEW k \in MinInt..MaxInt
  PROVE  Grouped(op, Integer(i), Integer(j), Integer(k))
<1>1. i \in Int /\ j \in Int /\ k \in Int
  BY IntAssumption
<1>2. CASE op = "MAX"
  <2>1. /\ Upper(i, j) \in MinInt..MaxInt /\ Upper(j, k) \in MinInt..MaxInt /\ Upper(i, i) = i
        /\ Upper(Upper(i, j), k) = Upper(i, Upper(j, k))
    BY <1>1 DEF Upper
  <2> QED
    BY <1>2, <2>1, IntegersMerge, ResultsGroup DEF Semilattice
<1>3. CASE op = "MIN"
  <2>1. /\ Lower(i, j) \in MinInt..MaxInt /\ Lower(j, k) \in MinInt..MaxInt /\ Lower(i, i) = i
        /\ Lower(Lower(i, j), k) = Lower(i, Lower(j, k))
    BY <1>1 DEF Lower
  <2> QED
    BY <1>3, <2>1, IntegersMerge, ResultsGroup DEF Semilattice
<1>4. CASE op \in {"UNION", "INTERSECT"}
  BY <1>4, IntegersMerge, MismatchesGroup DEF Semilattice
<1> DEFINE Total(a, b, both) ==
             IF both \in MinInt..MaxInt THEN Merged(Integer(both)) ELSE Conflict
           left(both) == Merge(op, Integer(i), Integer(j))
<1>5. op \in Abelian => op \notin Semilattice /\ Integer(i)[1] = "Integer"
  BY DEF Abelian, Semilattice, Integer
<1>6. ASSUME NEW both, IsMerged(Total(i, j, both))
      PROVE  both \in MinInt..MaxInt /\ Total(i, j, both) = Merged(Integer(both)) /\ Total(i, j, both).value = Integer(both)
  BY <1>6 DEF IsMerged, Merged, Conflict
<1>7. CASE op = "ADD"
  <2>1. (i + j) + k = i + (j + k)
    BY <1>1
  <2>2. PICK l : l = Merge(op, Integer(i), Integer(j))
    OBVIOUS
  <2>3. PICK r : r = Merge(op, Integer(j), Integer(k))
    OBVIOUS
  <2>4. l = Total(i, j, i + j) /\ r = Total(j, k, j + k)
    BY <1>7, <2>2, <2>3, IntegersMerge
  <2>5. ASSUME IsMerged(l), IsMerged(r),
               IsMerged(Merge(op, l.value, Integer(k))), IsMerged(Merge(op, Integer(i), r.value))
        PROVE  Merge(op, l.value, Integer(k)) = Merge(op, Integer(i), r.value)
    <3>1. /\ i + j \in MinInt..MaxInt /\ l.value = Integer(i + j)
          /\ j + k \in MinInt..MaxInt /\ r.value = Integer(j + k)
      BY <1>6, <2>4, <2>5
    <3> QED
      BY <1>7, <2>1, <3>1, IntegersMerge
  <2> QED
    BY <1>5, <1>7, <2>2, <2>3, <2>5 DEF Grouped, Abelian
<1>8. CASE op = "MULTIPLY"
  <2>1. (i * j) * k = i * (j * k)
    BY <1>1
  <2>2. PICK l : l = Merge(op, Integer(i), Integer(j))
    OBVIOUS
  <2>3. PICK r : r = Merge(op, Integer(j), Integer(k))
    OBVIOUS
  <2>4. l = Total(i, j, i * j) /\ r = Total(j, k, j * k)
    BY <1>8, <2>2, <2>3, IntegersMerge
  <2>5. ASSUME IsMerged(l), IsMerged(r),
               IsMerged(Merge(op, l.value, Integer(k))), IsMerged(Merge(op, Integer(i), r.value))
        PROVE  Merge(op, l.value, Integer(k)) = Merge(op, Integer(i), r.value)
    <3>1. /\ i * j \in MinInt..MaxInt /\ l.value = Integer(i * j)
          /\ j * k \in MinInt..MaxInt /\ r.value = Integer(j * k)
      BY <1>6, <2>4, <2>5
    <3> QED
      BY <1>8, <2>1, <3>1, IntegersMerge
  <2> QED
    BY <1>5, <1>8, <2>2, <2>3, <2>5 DEF Grouped, Abelian
<1>9. CASE op \notin Semilattice \cup Abelian
  BY <1>9 DEF Grouped
<1> QED
  BY <1>2, <1>3, <1>4, <1>7, <1>8, <1>9 DEF Semilattice, Abelian

\* Of the other types only the semilattice operations are asked.
LEMMA OthersGroup ==
  ASSUME NEW op \in OpType, NEW u, NEW v, NEW w, u[1] # "Integer", op \notin Semilattice
  PROVE  Grouped(op, u, v, w)
BY DEF Grouped

\* Floats are, by the operations that take one of them.
LEMMA FloatsGroup ==
  ASSUME NEW op \in OpType, NEW f \in FloatValues, NEW g \in FloatValues, NEW h \in FloatValues
  PROVE  Grouped(op, Float(f), Float(g), Float(h))
<1>1. f \in Int /\ g \in Int /\ h \in Int
  BY FloatAssumption
<1>2. CASE op = "MAX"
  <2>1. /\ Upper(f, g) \in FloatValues /\ Upper(g, h) \in FloatValues /\ Upper(f, f) = f
        /\ Upper(Upper(f, g), h) = Upper(f, Upper(g, h))
    BY <1>1 DEF Upper
  <2> QED
    BY <1>2, <2>1, FloatsMerge, ResultsGroup DEF Semilattice
<1>3. CASE op = "MIN"
  <2>1. /\ Lower(f, g) \in FloatValues /\ Lower(g, h) \in FloatValues /\ Lower(f, f) = f
        /\ Lower(Lower(f, g), h) = Lower(f, Lower(g, h))
    BY <1>1 DEF Lower
  <2> QED
    BY <1>3, <2>1, FloatsMerge, ResultsGroup DEF Semilattice
<1>4. CASE op \in {"UNION", "INTERSECT"}
  BY <1>4, FloatsMerge, MismatchesGroup DEF Semilattice
<1>5. CASE op \notin Semilattice
  BY <1>5, OthersGroup DEF Float
<1> QED
  BY <1>2, <1>3, <1>4, <1>5 DEF Semilattice

\* Sets are.
LEMMA SetsGroup ==
  ASSUME NEW op \in OpType, NEW type \in {"StringSet", "IntSet"}, NEW r, NEW s, NEW t
  PROVE  Grouped(op, SetOf(type, r), SetOf(type, s), SetOf(type, t))
<1> DEFINE u == SetOf(type, r)
           v == SetOf(type, s)
           w == SetOf(type, t)
<1>1. ASSUME NEW x, NEW y
      PROVE  /\ Merge("UNION", SetOf(type, x), SetOf(type, y)) = Merged(SetOf(type, x \cup y))
             /\ Merge("INTERSECT", SetOf(type, x), SetOf(type, y)) = Merged(SetOf(type, x \cap y))
             /\ Merge("MAX", SetOf(type, x), SetOf(type, y)) = TypeMismatch
             /\ Merge("MIN", SetOf(type, x), SetOf(type, y)) = TypeMismatch
  <2>1. MergesSets(type, x, y)
    BY SetsMerge
  <2> QED
    BY <2>1 DEF MergesSets
<1>2. u[1] # "Integer"
  BY DEF SetOf
<1>3. CASE op = "UNION"
  <2>1. r \cup r = r /\ (r \cup s) \cup t = r \cup (s \cup t)
    OBVIOUS
  <2>2. SetOf(type, r \cup r) = SetOf(type, r)
    BY <2>1
  <2>3. SetOf(type, (r \cup s) \cup t) = SetOf(type, r \cup (s \cup t))
    BY <2>1
  <2>4. Merge(op, u, u) = Merged(u)
    BY <1>1, <1>3, <2>2
  <2>5. /\ Merge(op, u, v) = Merged(SetOf(type, r \cup s))
        /\ Merge(op, v, w) = Merged(SetOf(type, s \cup t))
    BY <1>1, <1>3
  <2>6. /\ Merge(op, SetOf(type, r \cup s), w) = Merged(SetOf(type, r \cup (s \cup t)))
        /\ Merge(op, u, SetOf(type, s \cup t)) = Merged(SetOf(type, r \cup (s \cup t)))
    <3>1. PICK l : l = r \cup s
      OBVIOUS
    <3>2. PICK m : m = s \cup t
      OBVIOUS
    <3>3. Merge(op, SetOf(type, l), w) = Merged(SetOf(type, l \cup t))
      BY <1>1, <1>3
    <3>4. Merge(op, u, SetOf(type, m)) = Merged(SetOf(type, r \cup m))
      BY <1>1, <1>3
    <3> QED
      BY <2>3, <3>1, <3>2, <3>3, <3>4
  <2>7. op \in Semilattice
    BY <1>3 DEF Semilattice
  <2> QED
    BY <2>4, <2>5, <2>6, <2>7, ResultsGroup
<1>4. CASE op = "INTERSECT"
  <2>1. r \cap r = r /\ (r \cap s) \cap t = r \cap (s \cap t)
    OBVIOUS
  <2>2. SetOf(type, r \cap r) = SetOf(type, r)
    BY <2>1
  <2>3. SetOf(type, (r \cap s) \cap t) = SetOf(type, r \cap (s \cap t))
    BY <2>1
  <2>4. Merge(op, u, u) = Merged(u)
    BY <1>1, <1>4, <2>2
  <2>5. /\ Merge(op, u, v) = Merged(SetOf(type, r \cap s))
        /\ Merge(op, v, w) = Merged(SetOf(type, s \cap t))
    BY <1>1, <1>4
  <2>6. /\ Merge(op, SetOf(type, r \cap s), w) = Merged(SetOf(type, r \cap (s \cap t)))
        /\ Merge(op, u, SetOf(type, s \cap t)) = Merged(SetOf(type, r \cap (s \cap t)))
    <3>1. PICK l : l = r \cap s
      OBVIOUS
    <3>2. PICK m : m = s \cap t
      OBVIOUS
    <3>3. Merge(op, SetOf(type, l), w) = Merged(SetOf(type, l \cap t))
      BY <1>1, <1>4
    <3>4. Merge(op, u, SetOf(type, m)) = Merged(SetOf(type, r \cap m))
      BY <1>1, <1>4
    <3> QED
      BY <2>3, <3>1, <3>2, <3>3, <3>4
  <2>7. op \in Semilattice
    BY <1>4 DEF Semilattice
  <2> QED
    BY <2>4, <2>5, <2>6, <2>7, ResultsGroup
<1>5. CASE op \in {"MAX", "MIN"}
  <2>1. Merge(op, u, u) = TypeMismatch /\ Merge(op, u, v) = TypeMismatch /\ Merge(op, v, w) = TypeMismatch
    BY <1>1, <1>5
  <2>2. op \in Semilattice
    BY <1>5 DEF Semilattice
  <2> QED
    BY <2>1, <2>2, MismatchesGroup
<1>6. CASE op \notin Semilattice
  BY <1>2, <1>6, OthersGroup
<1> QED
  BY <1>3, <1>4, <1>5, <1>6 DEF Semilattice

\* Booleans are.
LEMMA BooleansGroup ==
  ASSUME NEW op \in OpType, NEW a \in BOOLEAN, NEW b \in BOOLEAN, NEW c \in BOOLEAN
  PROVE  Grouped(op, Boolean(a), Boolean(b), Boolean(c))
<1>1. CASE op \in {"MAX", "UNION"}
  <2>1. /\ (a \/ b) \in BOOLEAN /\ (b \/ c) \in BOOLEAN /\ (a \/ a) = a
        /\ ((a \/ b) \/ c) = (a \/ (b \/ c))
    OBVIOUS
  <2> QED
    BY <1>1, <2>1, BooleansMerge, ResultsGroup DEF Semilattice
<1>2. CASE op \in {"MIN", "INTERSECT"}
  <2>1. /\ (a /\ b) \in BOOLEAN /\ (b /\ c) \in BOOLEAN /\ (a /\ a) = a
        /\ ((a /\ b) /\ c) = (a /\ (b /\ c))
    OBVIOUS
  <2> QED
    BY <1>2, <2>1, BooleansMerge, ResultsGroup DEF Semilattice
<1>3. CASE op \notin Semilattice
  BY <1>3, OthersGroup DEF Boolean
<1> QED
  BY <1>1, <1>2, <1>3 DEF Semilattice

\* And nulls.
LEMMA NullsGroup ==
  ASSUME NEW op \in OpType
  PROVE  Grouped(op, Null, Null, Null)
<1>1. Merge(op, Null, Null) = Merged(Null)
  BY DEF Merge, Null, IsNull
<1>2. CASE op \in Semilattice
  BY <1>1, <1>2, ResultsGroup
<1>3. CASE op \notin Semilattice
  BY <1>3, OthersGroup DEF Null
<1> QED
  BY <1>2, <1>3

\* A value is its type and what it holds.
LEMMA ValueForms ==
  ASSUME NEW v \in AlgebraicValue
  PROVE  /\ v = <<v[1], v[2]>>
         /\ v[1] \in {"Integer", "Float", "StringSet", "IntSet", "Boolean", "Null"}
<1>1. CASE v = Null
  BY <1>1 DEF Null
<1>2. CASE v # Null
  BY <1>2 DEF AlgebraicValue
<1> QED
  BY <1>1, <1>2

\* An operation and three values.
MergeDomains ==
  /\ Len(Domains["merge"]) = 4
  /\ Domains["merge"][1] \subseteq OpType
  /\ \A i \in 2..4 : Domains["merge"][i] \subseteq AlgebraicValue

\* Merges commute, convert without rounding and may be grouped and repeated,
\* for all values, whatever the widths of the integers and of the floats.
THEOREM ValuesCorrect ==
  ASSUME MergeDomains, FloatsCoverIntegers, FloatEdges
  PROVE  ArgumentsSpec => []ValueLaws
<1>1. ASSUME ArgumentsTyped PROVE ValueLaws
  <2> SUFFICES ASSUME Given("merge") PROVE ValueLaws
    BY DEF ValueLaws, MergeCommutes, ConversionsExact, GroupingIrrelevant
  <2>1. PICK op \in OpType, u \in AlgebraicValue, v \in AlgebraicValue, w \in AlgebraicValue :
          op = input[1] /\ u = input[2] /\ v = input[3] /\ w = input[4]
    <3>1. \A i \in 1..4 : input[i] \in Domains["merge"][i]
      BY <1>1, ArgumentsGiven DEF MergeDomains
    <3>2. /\ input[1] \in OpType /\ input[2] \in AlgebraicValue
          /\ input[3] \in AlgebraicValue /\ input[4] \in AlgebraicValue
      BY <3>1 DEF MergeDomains
    <3> QED
      BY <3>2
  <2>2. MergeCommutes
    BY <2>1, MergeIsCommutative DEF MergeCommutes
  <2>3. ConversionsExact
    <3> DEFINE Halves(x) == IF x[1] = "Integer" THEN 2 * x[2] ELSE x[2]
    <3>1. \A h \in AsFloat(u) : h = Halves(u)
      <4>1. CASE u[1] = "Integer"
        <5>1. u[2] \in MinInt..MaxInt
          BY <4>1, ValueTypes
        <5> QED
          BY <4>1, <5>1, AsFloatExact DEF AsFloat
      <4>2. CASE u[1] # "Integer"
        BY <4>2 DEF AsFloat
      <4> QED
        BY <4>1, <4>2
    <3>2. ASSUME u # Float(ToFloat(MaxInt)), NEW i \in AsInteger(u) PROVE 2 * i = Halves(u)
      <4>1. CASE u[1] = "Integer"
        BY <3>2, <4>1 DEF AsInteger
      <4>2. CASE u[1] # "Integer"
        <5>1. u[1] = "Float" /\ FitsInteger(u[2]) /\ i = ToInteger(u[2])
          BY <3>2, <4>2 DEF AsInteger
        <5>2. PICK h \in FloatValues : h = u[2] /\ u = Float(h)
          BY <5>1, ValueTypes, ValueForms DEF Float
        <5>3. h # ToFloat(MaxInt)
          BY <3>2, <5>2
        <5> QED
          BY <4>2, <5>1, <5>2, <5>3, AsIntegerExact
      <4> QED
        BY <4>1, <4>2
    <3> QED
      BY <2>1, <3>1, <3>2 DEF ConversionsExact
  <2>4. ASSUME {v[1], w[1]} = {u[1]} PROVE Grouped(op, u, v, w)
    <3>1. v[1] = u[1] /\ w[1] = u[1]
      BY <2>4
    <3>2. u = <<u[1], u[2]>> /\ v = <<u[1], v[2]>> /\ w = <<u[1], w[2]>>
      BY <3>1, ValueForms
    <3>3. CASE u[1] = "Integer"
      BY <3>1, <3>2, <3>3, ValueTypes, IntegersGroup DEF Integer
    <3>4. CASE u[1] = "Float"
      BY <3>1, <3>2, <3>4, ValueTypes, FloatsGroup DEF Float
    <3>5. CASE u[1] \in {"StringSet", "IntSet"}
      BY <3>2, <3>5, SetsGroup DEF SetOf
    <3>6. CASE u[1] = "Boolean"
      BY <3>1, <3>2, <3>6, ValueTypes, BooleansGroup DEF Boolean
    <3>7. CASE u[1] = "Null"
      BY <3>1, <3>7, ValueTypes, NullsGroup DEF IsNull
    <3> QED
      BY <3>3, <3>4, <3>5, <3>6, <3>7, ValueForms
  <2>5. GroupingIrrelevant
    BY <2>1, <2>4 DEF GroupingIrrelevant, Grouped
  <2> QED
    BY <2>2, <2>3, <2>5 DEF ValueLaws
<1> QED
  BY <1>1, ArgumentsCorrect, PTL

\* The laws of merging hold for all values and all clocks.
THEOREM MergesCorrect ==
  ASSUME MergeDomains, ClockDomains, FloatsCoverIntegers, FloatEdges
  PROVE  ArgumentsSpec => []MergeLaws
<1>1. ValueLaws /\ ClockLaws => MergeLaws
  BY DEF MergeLaws
<1>2. ArgumentsSpec => []ValueLaws
  BY ValuesCorrect
<1>3. ArgumentsSpec => []ClockLaws
  BY ClocksCorrect
<1> QED
  BY <1>1, <1>2, <1>3, PTL

-----------------------------------------------------------------------------
(* Conflict detectors *)

\* Transactions are lists of writes.
WriteDomains ==
  /\ Len(Domains["writes"]) = 2
  /\ \E S : \A i \in 1..2 : Domains["writes"][i] \subseteq Seq(S)

\* The partition detector names the table of a write that meets one of the
\* other transaction, and none only when there is no such write.
LEMMA FirstMeeting ==
  ASSUME NEW S, NEW tx1 \in Seq(S), NEW tx2
  PROVE  /\ PartitionLevel(tx1, tx2) \subseteq {tx1[i].table : i \in Meeting(tx1, tx2)}
         /\ PartitionLevel(tx1, tx2) = NoConflict <=> Meeting(tx1, tx2) = {}
<1>1. PICK M : M = Meeting(tx1, tx2)
  OBVIOUS
<1>2. M \subseteq Nat
  BY <1>1 DEF Meeting
<1>3. PartitionLevel(tx1, tx2) = {tx1[i].table : i \in {m \in M : \A n \in M : m <= n}}
  BY <1>1 DEF PartitionLevel
<1>4. ASSUME M # {} PROVE PartitionLevel(tx1, tx2) # NoConflict
  <2>1. PICK n \in M : \A m \in M : n <= m
    BY <1>2, <1>4, LeastNumber
  <2>2. tx1[n].table \in PartitionLevel(tx1, tx2)
    BY <1>3, <2>1
  <2> QED
    BY <2>2 DEF NoConflict
<1>5. M = {} => PartitionLevel(tx1, tx2) = NoConflict
  BY <1>3 DEF NoConflict
<1> QED
  BY <1>1, <1>3, <1>4, <1>5

\* Two writes that may touch one part meet, whichever comes first.
LEMMA TouchingMeet ==
  ASSUME NEW w1, NEW w2
  PROVE  /\ Touched(w1) \cap Touched(w2) # {} => PartitionsMeet(w1, w2)
         /\ PartitionsMeet(w1, w2) => PartitionsMeet(w2, w1)
BY DEF Touched, PartitionsMeet

\* No detector misses a part of a table two transactions may write, whatever
\* they write.
LEMMA DetectorsMissNothing ==
  ASSUME WriteDomains, ArgumentsTyped
  PROVE  NoMissedConflict
<1>0. SUFFICES ASSUME Given("writes") PROVE NoMissedConflict
  BY Zenon DEF NoMissedConflict
<1>1. PICK tx1, tx2 : tx1 = input[1] /\ tx2 = input[2]
  OBVIOUS
<1>2. PICK S : tx1 \in Seq(S) /\ tx2 \in Seq(S)
  <2>1. input[1] \in Domains["writes"][1] /\ input[2] \in Domains["writes"][2]
    <3>1. \A i \in 1..2 : input[i] \in Domains["writes"][i]
      BY <1>0, ArgumentsGiven DEF WriteDomains
    <3> QED
      BY <3>1
  <2>2. \E S : Domains["writes"][1] \subseteq Seq(S) /\ Domains["writes"][2] \subseteq Seq(S)
    BY DEF WriteDomains
  <2> QED
    BY <1>1, <2>1, <2>2
<1>3. PICK overlap : overlap = {part[1] : part \in TouchedBy(tx1) \cap TouchedBy(tx2)}
  OBVIOUS
<1>4. ASSUME overlap # {} PROVE PartitionLevel(tx1, tx2) # NoConflict
  <2>1. PICK part : part \in TouchedBy(tx1) /\ part \in TouchedBy(tx2)
    BY <1>3, <1>4
  <2>2. PICK i \in DOMAIN tx1, j \in DOMAIN tx2 :
          part \in Touched(tx1[i]) /\ part \in Touched(tx2[j])
    BY <2>1 DEF TouchedBy
  <2>3. i \in Meeting(tx1, tx2)
    BY <2>2, TouchingMeet DEF Meeting
  <2> QED
    BY <1>2, <2>3, FirstMeeting
<1>5. PartitionLevel(tx1, tx2) = NoConflict <=> PartitionLevel(tx2, tx1) = NoConflict
  <2>1. Meeting(tx1, tx2) = {} <=> Meeting(tx2, tx1) = {}
    BY TouchingMeet DEF Meeting
  <2> QED
    BY <1>2, <2>1, FirstMeeting
<1>6. ASSUME NEW t \in PartitionLevel(tx1, tx2)
      PROVE  /\ t \in TableLevel(tx1, tx2)
             /\ t \in overlap \/ WritesAll(tx1, t) \/ WritesAll(tx2, t)
  <2>1. PICK i \in Meeting(tx1, tx2) : t = tx1[i].table
    BY <1>2, FirstMeeting
  <2>2. PICK w1, w2 : /\ \E k \in DOMAIN tx1 : w1 = tx1[k]
                      /\ \E k \in DOMAIN tx2 : w2 = tx2[k]
                      /\ PartitionsMeet(w1, w2) /\ t = w1.table
    BY <2>1 DEF Meeting
  <2>3. t = w2.table
    BY <2>2 DEF PartitionsMeet
  <2>4. t \in TableLevel(tx1, tx2)
    BY <2>2, <2>3 DEF TableLevel, TablesOf
  <2>5. CASE w1.granularity = "Partitions" /\ w2.granularity = "Partitions"
    <3>1. PICK p : p \in w1.parts /\ p \in w2.parts
      BY <2>2, <2>5 DEF PartitionsMeet
    <3>2. <<t, p>> \in Touched(w1) /\ <<t, p>> \in Touched(w2)
      BY <2>2, <2>3, <2>5, <3>1 DEF Touched
    <3>3. <<t, p>> \in TouchedBy(tx1) /\ <<t, p>> \in TouchedBy(tx2)
      BY <2>2, <3>2 DEF TouchedBy
    <3>4. <<t, p>>[1] \in overlap
      BY <1>3, <3>3
    <3> QED
      BY <2>4, <3>4
  <2>6. CASE ~(w1.granularity = "Partitions" /\ w2.granularity = "Partitions")
    BY <2>2, <2>3, <2>4, <2>6 DEF WritesAll
  <2> QED
    BY <2>5, <2>6
<1>7. TableLevel(tx1, tx2) = TableLevel(tx2, tx1)
  BY DEF TableLevel
<1>8. /\ PartitionLevel(tx1, tx2) \subseteq Adaptive(tx1, tx2)
      /\ Adaptive(tx1, tx2) \subseteq TableLevel(tx1, tx2)
      /\ Adaptive(tx1, tx2) = NoConflict <=> Adaptive(tx2, tx1) = NoConflict
      /\ PartitionLevel(tx1, tx2) # NoConflict => Adaptive(tx1, tx2) # NoConflict
  <2>1. CASE WritesPartitions(tx1) \/ WritesPartitions(tx2)
    <3>1. /\ Adaptive(tx1, tx2) = PartitionLevel(tx1, tx2)
          /\ Adaptive(tx2, tx1) = PartitionLevel(tx2, tx1)
      BY <2>1 DEF Adaptive
    <3> QED
      BY <1>5, <1>6, <3>1
  <2>2. CASE ~(WritesPartitions(tx1) \/ WritesPartitions(tx2))
    <3>1. /\ Adaptive(tx1, tx2) = TableLevel(tx1, tx2)
          /\ Adaptive(tx2, tx1) = TableLevel(tx2, tx1)
      BY <2>2 DEF Adaptive
    <3>2. PartitionLevel(tx1, tx2) \subseteq TableLevel(tx1, tx2)
      BY <1>6
    <3> QED
      BY <1>7, <3>1, <3>2 DEF NoConflict
  <2> QED
    BY <2>1, <2>2
<1> QED
  BY <1>1, <1>3, <1>4, <1>5, <1>6, <1>8 DEF NoMissedConflict

\* The elements of a finite set can be counted one by one.
LEMMA Counting ==
  ASSUME NEW S, IsFiniteSet(S), NEW N, N = Cardinality(S)
  PROVE  N \in Nat /\ \E f \in [1..N -> S] : \A i, j \in 1..N : i # j => f[i] # f[j]
<1> DEFINE Counts(T, n) == \E f \in [1..n -> T] : \A i, j \in 1..n : i # j => f[i] # f[j]
           G == {n \in 0..N : \A T \in SUBSET S : Cardinality(T) = n => Counts(T, n)}
<1>1. N \in Nat
  BY FS_CardinalityType
<1>2. 0 \in G
  <2>1. ASSUME NEW T \in SUBSET S PROVE Counts(T, 0)
    <3>1. PICK none : none = [i \in 1..0 |-> 0]
      OBVIOUS
    <3>2. none \in [1..0 -> T] /\ \A i, j \in 1..0 : i # j => none[i] # none[j]
      BY <3>1
    <3> QED
      BY <3>2
  <2> QED
    BY <1>1, <2>1
<1>3. ASSUME NEW n \in 1..N, n - 1 \in G PROVE n \in G
  <2>1. ASSUME NEW T \in SUBSET S, Cardinality(T) = n PROVE Counts(T, n)
    <3>1. IsFiniteSet(T)
      BY FS_Subset
    <3>2. PICK x \in T : TRUE
      BY <2>1, <3>1, FS_EmptySet
    <3>3. T \ {x} \in SUBSET S /\ Cardinality(T \ {x}) = n - 1
      BY <2>1, <3>1, FS_RemoveElement
    <3>4. PICK f \in [1..(n - 1) -> T \ {x}] : \A i, j \in 1..(n - 1) : i # j => f[i] # f[j]
      BY <1>3, <3>3
    <3>5. PICK g : g = [i \in 1..n |-> IF i = n THEN x ELSE f[i]]
      OBVIOUS
    <3>6. \A i \in 1..n : i # n => i \in 1..(n - 1)
      OBVIOUS
    <3>7. g \in [1..n -> T]
      BY <3>4, <3>5, <3>6
    <3>8. ASSUME NEW i \in 1..n, NEW j \in 1..n, i # j PROVE g[i] # g[j]
      BY <3>4, <3>5, <3>6, <3>8
    <3> QED
      BY <3>7, <3>8
  <2> QED
    BY <1>1, <2>1
<1>4. N \in G
  <2> HIDE DEF G
  <2>1. \A n \in 1..N : n - 1 \in G => n \in G
    BY <1>3
  <2>2. 0..N \subseteq G
    BY <1>1, <1>2, <2>1, NaturalSteps
  <2> QED
    BY <1>1, <2>2
<1> QED
  BY <1>1, <1>4

\* A finite set as a sequence has each of its elements, once.
LEMMA ListedNames ==
  ASSUME NEW S, IsFiniteSet(S), NEW N, N = Cardinality(S), NEW q, q = SetToSeq(S)
  PROVE  /\ N \in Nat /\ q \in [1..N -> S]
         /\ \A x \in S : \E i \in 1..N : q[i] = x
         /\ \A i, j \in 1..N : i # j => q[i] # q[j]
<1>1. PICK T : T = 1..N
  OBVIOUS
<1>2. N \in Nat /\ \E f \in [T -> S] : \A i, j \in T : i # j => f[i] # f[j]
  BY <1>1, Counting
<1>3. q = CHOOSE f \in [T -> S] : \A i, j \in DOMAIN f : f[i] = f[j] => i = j
  BY <1>1 DEF SetToSeq, IsInjective
<1>4. q \in [T -> S] /\ \A i, j \in T : i # j => q[i] # q[j]
  BY <1>2, <1>3
<1>5. ASSUME NEW x \in S, \A i \in T : q[i] # x PROVE FALSE
  <2>1. q \in [T -> S \ {x}]
    BY <1>4, <1>5
  <2>2. IsFiniteSet(T) /\ Cardinality(T) = N
    BY <1>1, <1>2, FS_Interval
  <2>3. IsFiniteSet(S \ {x}) /\ Cardinality(S \ {x}) < Cardinality(T)
    <3>1. IsFiniteSet(S \ {x}) /\ Cardinality(S \ {x}) = Cardinality(S) - 1
      BY FS_RemoveElement
    <3> QED
      BY <1>2, <2>2, <3>1
  <2>4. \E i, j \in T : i # j /\ q[i] = q[j]
    <3>1. PICK R : R = S \ {x}
      OBVIOUS
    <3>2. q \in [T -> R] /\ IsFiniteSet(R) /\ Cardinality(R) < Cardinality(T)
      BY <2>1, <2>3, <3>1
    <3> QED
      BY <2>2, <3>2, FS_PigeonHole
  <2> QED
    BY <1>4, <2>4
<1> QED
  BY <1>1, <1>2, <1>4, <1>5

\* The write set of the first n of the rows in q.
Inserted(bits, hashes, q, n) ==
  [filter |-> [bits |-> UNION {HashIndices(NewFilter(bits, hashes), q[i]) : i \in 1..n},
               size |-> bits, hashes |-> NewFilter(bits, hashes).hashes],
   tables |-> {q[i][1] : i \in 1..n}]

\* Inserting rows of a list one at a time.
LEMMA InsertedOne ==
  ASSUME NEW bits, NEW hashes, NEW q, NEW n \in Nat, n # 0
  PROVE  InsertRow(Inserted(bits, hashes, q, n - 1), q[n]) = Inserted(bits, hashes, q, n)
<1> DEFINE f == NewFilter(bits, hashes)
           ws == Inserted(bits, hashes, q, n - 1)
           after == InsertRow(ws, q[n])
<1>1. \A i : i \in 1..n <=> i \in 1..(n - 1) \/ i = n
  OBVIOUS
<1>2. HashIndices(ws.filter, q[n]) = HashIndices(f, q[n])
  BY DEF HashIndices, Inserted, NewFilter
<1>3. /\ after.filter = [ws.filter EXCEPT !.bits = ws.filter.bits \cup HashIndices(f, q[n])]
      /\ after.tables = ws.tables \cup {q[n][1]}
      /\ after = [filter |-> after.filter, tables |-> after.tables]
  BY <1>2 DEF InsertRow, InsertItem
<1>4. ws.filter.bits \cup HashIndices(f, q[n]) = UNION {HashIndices(f, q[i]) : i \in 1..n}
  <2>1. ws.filter.bits = UNION {HashIndices(f, q[i]) : i \in 1..(n - 1)}
    BY DEF Inserted
  <2> HIDE DEF ws, f
  <2> QED
    BY <1>1, <2>1
<1>5. ws.tables \cup {q[n][1]} = {q[i][1] : i \in 1..n}
  <2>1. ws.tables = {q[i][1] : i \in 1..(n - 1)}
    BY DEF Inserted
  <2> HIDE DEF ws
  <2> QED
    BY <1>1, <2>1
<1>6. ws.filter = [bits |-> ws.filter.bits, size |-> bits, hashes |-> f.hashes]
  BY DEF Inserted
<1>7. after.filter = [bits |-> UNION {HashIndices(f, q[i]) : i \in 1..n}, size |-> bits, hashes |-> f.hashes]
  <2> HIDE DEF ws, f, after
  <2>1. PICK all : all = ws.filter.bits \cup HashIndices(f, q[n])
    OBVIOUS
  <2>2. after.filter = [ws.filter EXCEPT !.bits = all]
    BY <1>3, <2>1
  <2>3. after.filter = [bits |-> all, size |-> bits, hashes |-> f.hashes]
    BY <1>6, <2>2
  <2> QED
    BY <1>4, <2>1, <2>3
<1> QED
  BY <1>3, <1>5, <1>7 DEF Inserted

\* The write set of rows is that of all of them.
LEMMA InsertedAll ==
  ASSUME NEW rows, IsFiniteSet(rows), NEW bits, NEW hashes
  PROVE  WriteSet(rows, bits, hashes) = Inserted(bits, hashes, SetToSeq(rows), Cardinality(rows))
<1> DEFINE q == SetToSeq(rows)
           N == Cardinality(rows)
           ws[n \in 0..N] == IF n = 0 THEN NewWriteSet(bits, hashes) ELSE InsertRow(ws[n - 1], q[n])
           closed == [n \in 0..N |-> Inserted(bits, hashes, q, n)]
<1>1. N \in Nat
  BY FS_CardinalityType
<1>2. NewWriteSet(bits, hashes) = Inserted(bits, hashes, q, 0)
  BY DEF NewWriteSet, NewFilter, Inserted
<1>3. WriteSet(rows, bits, hashes) = ws[N]
  BY DEF WriteSet
<1> HIDE DEF q, N
<1>4. closed = [n \in 0..N |-> IF n = 0 THEN NewWriteSet(bits, hashes) ELSE InsertRow(closed[n - 1], q[n])]
  <2>1. ASSUME NEW n \in 0..N, n # 0
        PROVE  closed[n] = InsertRow(closed[n - 1], q[n])
    <3>1. n \in Nat /\ n - 1 \in 0..N
      BY <1>1, <2>1
    <3> QED
      BY <2>1, <3>1, InsertedOne
  <2>2. \A n \in 0..N : closed[n] = IF n = 0 THEN NewWriteSet(bits, hashes) ELSE InsertRow(closed[n - 1], q[n])
    BY <1>2, <2>1
  <2>3. closed = [n \in 0..N |-> closed[n]]
    OBVIOUS
  <2> HIDE DEF closed
  <2> QED
    BY <2>2, <2>3
<1> HIDE DEF closed
<1>5. ws = [n \in 0..N |-> IF n = 0 THEN NewWriteSet(bits, hashes) ELSE InsertRow(ws[n - 1], q[n])]
  BY <1>4
<1> HIDE DEF ws
<1> DEFINE G == {n \in 0..N : ws[n] = Inserted(bits, hashes, q, n)}
<1>6. 0 \in G
  BY <1>1, <1>2, <1>5
<1>7. ASSUME NEW n \in 1..N, n - 1 \in G PROVE n \in G
  <2>1. n \in 0..N /\ n # 0 /\ n \in Nat
    BY <1>1
  <2>2. ws[n] = InsertRow(ws[n - 1], q[n])
    BY <1>5, <2>1
  <2> QED
    BY <1>7, <2>1, <2>2, InsertedOne
<1>8. ws[N] = Inserted(bits, hashes, q, N)
  <2> HIDE DEF G
  <2>1. \A n \in 1..N : n - 1 \in G => n \in G
    BY <1>7
  <2>2. 0..N \subseteq G
    BY <1>1, <1>6, <2>1, NaturalSteps
  <2>3. N \in G
    BY <1>1, <2>2
  <2> QED
    BY <2>3 DEF G
<1> QED
  BY <1>3, <1>8 DEF q, N

\* What a write set of rows has: the tables of the rows, and the bits of each.
LEMMA WriteSetHas ==
  ASSUME NEW rows, IsFiniteSet(rows), NEW bits, NEW hashes, NEW ws, ws = WriteSet(rows, bits, hashes)
  PROVE  /\ ws.filter.size = bits
         /\ \A row \in rows : MightContain(ws, row)
         /\ \A row \in rows : HashIndices(NewFilter(bits, hashes), row) \subseteq ws.filter.bits
<1>1. PICK N : N = Cardinality(rows)
  OBVIOUS
<1>2. PICK q : q = SetToSeq(rows)
  OBVIOUS
<1>3. ws = Inserted(bits, hashes, q, N)
  BY <1>1, <1>2, InsertedAll
<1>4. \A row \in rows : \E i \in 1..N : q[i] = row
  BY <1>1, <1>2, ListedNames
<1>5. /\ ws.filter.size = bits /\ ws.filter.hashes = NewFilter(bits, hashes).hashes
      /\ ws.filter.bits = UNION {HashIndices(NewFilter(bits, hashes), q[i]) : i \in 1..N}
      /\ ws.tables = {q[i][1] : i \in 1..N}
  BY <1>3 DEF Inserted
<1>6. ASSUME NEW row \in rows
      PROVE  HashIndices(NewFilter(bits, hashes), row) \subseteq ws.filter.bits /\ row[1] \in ws.tables
  BY <1>4, <1>5
<1>7. ASSUME NEW row \in rows
      PROVE  HashIndices(ws.filter, row) = HashIndices(NewFilter(bits, hashes), row)
  <2>1. NewFilter(bits, hashes).size = bits
    BY DEF NewFilter
  <2> QED
    BY <1>5, <2>1 DEF HashIndices
<1>8. \A row \in rows : MightContain(ws, row)
  BY <1>6, <1>7 DEF MightContain, ContainsItem
<1> QED
  BY <1>5, <1>6, <1>8

\* Finite sets of rows, and filters that have a hash, as with_params asserts.
RowDomains ==
  /\ Len(Domains["rows"]) = 4
  /\ \A i \in 1..2 : \A rows \in Domains["rows"][i] : IsFiniteSet(rows)
  /\ \A i \in 3..4 : \A f \in Domains["rows"][i] : f[2] \in Nat \ {0}

\* No detector misses a conflict, and whether there is one does not depend on
\* the order: the others for all lists of writes, the Bloom filters for all
\* rows, hashes and parameters (conflict.rs).
THEOREM DetectorsCorrect ==
  ASSUME WriteDomains, RowDomains
  PROVE  ArgumentsSpec => []ConflictsFound
<1>1. ASSUME ArgumentsTyped PROVE ConflictsFound
  <2>1. ASSUME Given("rows") PROVE BloomMissesNothing
    <3>1. \A i \in 1..4 : input[i] \in Domains["rows"][i]
      BY <1>1, <2>1, ArgumentsGiven DEF RowDomains
    <3>2. /\ IsFiniteSet(input[1]) /\ IsFiniteSet(input[2])
          /\ input[3][2] \in Nat \ {0} /\ input[4][2] \in Nat \ {0}
      BY <3>1 DEF RowDomains
    <3>3. PICK bits1, hashes1, bits2, hashes2 :
            /\ bits1 = input[3][1] /\ hashes1 = input[3][2]
            /\ bits2 = input[4][1] /\ hashes2 = input[4][2]
      OBVIOUS
    <3>4. PICK ws1, ws2 : ws1 = WriteSet(input[1], bits1, hashes1) /\ ws2 = WriteSet(input[2], bits2, hashes2)
      OBVIOUS
    <3>5. /\ ws1.filter.size = bits1 /\ ws2.filter.size = bits2
          /\ \A row \in input[1] : /\ MightContain(ws1, row)
                                   /\ HashIndices(NewFilter(bits1, hashes1), row) \subseteq ws1.filter.bits
          /\ \A row \in input[2] : /\ MightContain(ws2, row)
                                   /\ HashIndices(NewFilter(bits2, hashes2), row) \subseteq ws2.filter.bits
      BY <3>2, <3>4, WriteSetHas
    <3>6. ASSUME NEW row \in input[1] \cap input[2] PROVE row[1] \in DetectBloom(ws1, ws2)
      <4>1. row[1] \in ws1.tables \cap ws2.tables
        BY <3>5, <3>6 DEF MightContain
      <4>2. PICK first : first = H1[row] + 0 * H2[row] + 0 * 0
        OBVIOUS
      <4>3. ASSUME NEW bits, NEW hashes \in Nat \ {0}
            PROVE  first % bits \in HashIndices(NewFilter(bits, hashes), row)
        <5>1. 0 \in 0..(NewFilter(bits, hashes).hashes - 1) /\ NewFilter(bits, hashes).size = bits
          BY DEF NewFilter
        <5> QED
          BY <4>2, <5>1 DEF HashIndices
      <4>4. first % bits1 \in ws1.filter.bits /\ first % bits2 \in ws2.filter.bits
        BY <3>2, <3>3, <3>5, <3>6, <4>3
      <4>5. MaybeIntersects(ws1.filter, ws2.filter)
        BY <3>5, <4>4 DEF MaybeIntersects
      <4> QED
        BY <4>1, <4>5 DEF DetectBloom, MaybeConflicts
    <3>7. DetectBloom(ws1, ws2) = DetectBloom(ws2, ws1)
      BY DEF DetectBloom, MaybeConflicts, MaybeIntersects
    <3> QED
      BY <3>3, <3>4, <3>5, <3>6, <3>7 DEF BloomMissesNothing
  <2>2. BloomMissesNothing
    BY <2>1 DEF BloomMissesNothing
  <2> QED
    BY <1>1, <2>2, DetectorsMissNothing DEF ConflictsFound
<1> QED
  BY <1>1, ArgumentsCorrect, PTL

-----------------------------------------------------------------------------
(* Quotas *)

\* total[k] is the mass of at most k requests, for the masses up to K.
AddsMasses(total, mass, K) ==
  /\ total \in [-1..K -> Int] /\ total[-1] = 0
  /\ \A i \in 0..K : total[i] = total[i - 1] + mass[i]

\* There are sums of the masses up to every number.
LEMMA MassesAdd ==
  ASSUME NEW K \in Nat, NEW mass, \A i \in 0..K : mass[i] \in Int
  PROVE  \E total : AddsMasses(total, mass, K)
<1>1. PICK N \in Nat : N = K + 1
  OBVIOUS
<1>2. PICK S : S = Int
  OBVIOUS
<1>3. PICK step : step = [i \in 1..N |-> [s \in S |-> s + mass[i - 1]]]
  OBVIOUS
<1>0. PICK zero \in S : zero = 0
  BY <1>2
<1>4. \A i \in 1..N : mass[i - 1] \in S
  <2>1. \A i \in 1..N : i - 1 \in 0..K
    BY <1>1
  <2> QED
    BY <1>2, <2>1
<1>5. step \in [1..N -> [S -> S]]
  BY <1>2, <1>3, <1>4
<1> DEFINE f == Iteration(S, zero, N, step)
<1>6. f \in [0..N -> S] /\ f[0] = zero /\ \A i \in 1..N : f[i] = step[i][f[i - 1]]
  BY <1>5, Iterates
<1> HIDE DEF f
<1>7. \A i \in 1..N : f[i] = f[i - 1] + mass[i - 1]
  <2>1. \A i \in 1..N : f[i - 1] \in S
    BY <1>6
  <2> QED
    BY <1>3, <1>6, <2>1
<1>8. PICK total : total = [i \in -1..K |-> f[i + 1]]
  OBVIOUS
<1>9. total \in [-1..K -> Int] /\ total[-1] = 0
  BY <1>0, <1>1, <1>2, <1>6, <1>8
<1>10. ASSUME NEW i \in 0..K PROVE total[i] = total[i - 1] + mass[i]
  <2>1. i \in -1..K /\ i - 1 \in -1..K /\ i + 1 \in 1..N
    BY <1>1
  <2>2. total[i] = f[i + 1] /\ total[i - 1] = f[i]
    BY <1>8, <2>1
  <2>3. f[i + 1] = f[i] + mass[i]
    BY <1>7, <2>1
  <2> QED
    BY <2>2, <2>3
<1> QED
  BY <1>9, <1>10 DEF AddsMasses

\* What poisson_cdf answers.
LEMMA CdfAdds ==
  ASSUME NEW K \in Nat, NEW mass, NEW lambda \in Int, lambda > 0,
         NEW total, AddsMasses(total, mass, K), NEW k \in -1..K
  PROVE  PoissonCdf(k, lambda, mass) = total[k]
<1>1. CASE k = -1
  BY <1>1 DEF PoissonCdf, AddsMasses
<1>2. CASE k # -1
  <2> DEFINE sum[i \in -1..k] == IF i < 0 THEN 0 ELSE sum[i - 1] + mass[i]
  <2>1. PoissonCdf(k, lambda, mass) = sum[k]
    BY <1>2 DEF PoissonCdf
  <2>2. PICK closed : closed = [i \in -1..k |-> total[i]]
    OBVIOUS
  <2>3. \A i \in -1..k : total[i] = IF i < 0 THEN 0 ELSE closed[i - 1] + mass[i]
    BY <2>2 DEF AddsMasses
  <2>4. closed = [i \in -1..k |-> IF i < 0 THEN 0 ELSE closed[i - 1] + mass[i]]
    BY <2>2, <2>3
  <2>5. sum = [i \in -1..k |-> IF i < 0 THEN 0 ELSE sum[i - 1] + mass[i]]
    BY <2>4
  <2> HIDE DEF sum
  <2> DEFINE G == {n \in 0..(k + 1) : sum[n - 1] = total[n - 1]}
  <2>6. 0 \in G
    BY <2>5 DEF AddsMasses
  <2>7. ASSUME NEW n \in 1..(k + 1), n - 1 \in G PROVE n \in G
    <3>1. PICK i \in 0..k : i = n - 1
      OBVIOUS
    <3>2. sum[i] = sum[i - 1] + mass[i]
      BY <2>5
    <3>3. total[i] = total[i - 1] + mass[i]
      BY DEF AddsMasses
    <3> QED
      BY <2>7, <3>1, <3>2, <3>3
  <2>8. k + 1 \in G
    <3> HIDE DEF G
    <3>1. PICK N \in Nat : N = k + 1
      BY <1>2
    <3>2. \A n \in 1..N : n - 1 \in G => n \in G
      BY <2>7, <3>1
    <3>3. 0..N \subseteq G
      BY <2>6, <3>1, <3>2, NaturalSteps
    <3> QED
      BY <3>1, <3>3
  <2> QED
    BY <2>1, <2>8
<1> QED
  BY <1>1, <1>2

\* How far the search has come after some turns: either it looks at the next
\* number, and the masses of those before it fall short of the target, or it
\* has found the first whose masses do not.
Searched(found, turn, p, total) ==
  /\ ~found.done => /\ found.k = turn /\ found.cdf = total[turn - 1]
                    /\ \A j \in -1..(turn - 1) : total[j] < p
  /\ found.done => /\ found.k \in 0..(turn - 1) /\ total[found.k] >= p
                   /\ \A j \in -1..(found.k - 1) : total[j] < p

\* One turn of the search for the quantile.
LEMMA SearchTurn ==
  ASSUME NEW K \in Nat, NEW mass, NEW total, AddsMasses(total, mass, K), NEW p \in Int,
         NEW turn \in 1..(K + 1),
         NEW found \in [k : Int, cdf : Int, done : BOOLEAN], Searched(found, turn - 1, p, total)
  PROVE  /\ Search(found, p, mass[turn - 1]) \in [k : Int, cdf : Int, done : BOOLEAN]
         /\ Searched(Search(found, p, mass[turn - 1]), turn, p, total)
<1> DEFINE after == Search(found, p, mass[turn - 1])
<1>1. PICK t \in 0..K : t = turn - 1
  OBVIOUS
<1>2. total[t] = total[t - 1] + mass[t] /\ total[t] \in Int
  BY DEF AddsMasses
<1>3. CASE found.done
  BY <1>3 DEF Search, Searched
<1>4. CASE ~found.done
  <2>1. found.k = t /\ found.cdf + mass[t] = total[t] /\ \A j \in -1..(t - 1) : total[j] < p
    BY <1>1, <1>2, <1>4 DEF Searched
  <2>2. CASE total[t] >= p
    <3>1. after = [found EXCEPT !.cdf = total[t], !.done = TRUE]
      BY <1>1, <1>4, <2>1, <2>2 DEF Search
    <3>2. after.k = t /\ after.done
      BY <2>1, <3>1
    <3>3. after \in [k : Int, cdf : Int, done : BOOLEAN]
      BY <1>2, <3>1
    <3> HIDE DEF after
    <3>4. Searched(after, turn, p, total)
      BY <1>1, <2>1, <2>2, <3>2 DEF Searched
    <3> QED
      BY <3>3, <3>4 DEF after
  <2>3. CASE total[t] < p
    <3>0. PICK sum \in Int, next \in Int : sum = total[t] /\ next = t + 1
      BY <1>2
    <3>1. after = [found EXCEPT !.cdf = sum, !.k = next]
      <4>1. ~(found.cdf + mass[turn - 1] >= p) /\ found.cdf + mass[turn - 1] = sum /\ found.k + 1 = next
        BY <1>1, <1>2, <2>1, <2>3, <3>0
      <4>2. after = [found EXCEPT !.cdf = found.cdf + mass[turn - 1], !.k = found.k + 1]
        BY <1>4, <4>1 DEF Search
      <4> QED
        BY <4>1, <4>2
    <3>2. after.k = turn /\ ~after.done /\ after.cdf = total[turn - 1]
      BY <1>1, <1>4, <3>0, <3>1
    <3>3. after \in [k : Int, cdf : Int, done : BOOLEAN]
      BY <3>0, <3>1
    <3>4. \A j \in -1..(turn - 1) : total[j] < p
      BY <1>1, <2>1, <2>3
    <3> HIDE DEF after
    <3>5. Searched(after, turn, p, total)
      BY <3>2, <3>4 DEF Searched
    <3> QED
      BY <3>3, <3>5 DEF after
  <2> QED
    BY <1>2, <2>2, <2>3
<1> QED
  BY <1>3, <1>4

\* Where the search for a quantile ends.
LEMMA SearchEnds ==
  ASSUME NEW p \in 1..(Certain - 1), NEW lambda \in Int, lambda > 0, NEW mass,
         NEW K \in Nat, K = BoundFactor * lambda + BoundMargin,
         NEW total, AddsMasses(total, mass, K), total[K] >= p
  PROVE  /\ PoissonInverseCdf(p, lambda, mass) \in 0..K
         /\ total[PoissonInverseCdf(p, lambda, mass)] >= p
         /\ \A j \in -1..(PoissonInverseCdf(p, lambda, mass) - 1) : total[j] < p
<1> DEFINE start == [k |-> 0, cdf |-> 0, done |-> FALSE]
           found[turn \in 0..(K + 1)] ==
             IF turn = 0 THEN start ELSE Search(found[turn - 1], p, mass[turn - 1])
<1>1. p \in Int /\ 0 < p /\ ~(p >= Certain) /\ ~(lambda <= 0) /\ ~(p <= 0)
  BY PoissonAssumption
<1>2. PoissonInverseCdf(p, lambda, mass) = found[K + 1].k
  BY <1>1 DEF PoissonInverseCdf
<1>3. PICK S : S = [k : Int, cdf : Int, done : BOOLEAN]
  OBVIOUS
<1>4. PICK N \in Nat : N = K + 1
  OBVIOUS
<1>5. PICK first \in S : first = start
  <2>1. start \in [k : Int, cdf : Int, done : BOOLEAN]
    OBVIOUS
  <2> HIDE DEF start
  <2> QED
    BY <1>3, <2>1
<1>7. PICK step : step = [turn \in 1..N |-> [s \in S |-> IF Search(s, p, mass[turn - 1]) \in S
                                                        THEN Search(s, p, mass[turn - 1]) ELSE s]]
  OBVIOUS
<1>8. step \in [1..N -> [S -> S]]
  BY <1>7
<1> DEFINE f == Iteration(S, first, N, step)
           G == {turn \in 0..N : Searched(f[turn], turn, p, total)}
<1>9. f \in [0..N -> S] /\ f[0] = first /\ \A i \in 1..N : f[i] = step[i][f[i - 1]]
  BY <1>8, Iterates
<1> HIDE DEF f
<1>10. 0 \in G
  BY <1>1, <1>4, <1>5, <1>9 DEF Searched, AddsMasses
<1>11. ASSUME NEW turn \in 1..N, turn - 1 \in G
       PROVE  turn \in G /\ f[turn] = Search(f[turn - 1], p, mass[turn - 1])
  <2>1. turn \in 1..(K + 1) /\ f[turn - 1] \in [k : Int, cdf : Int, done : BOOLEAN]
    BY <1>3, <1>4, <1>9
  <2>2. PICK s : s = f[turn - 1]
    OBVIOUS
  <2>3. s \in [k : Int, cdf : Int, done : BOOLEAN] /\ Searched(s, turn - 1, p, total)
    BY <1>11, <2>1, <2>2
  <2>4. /\ Search(s, p, mass[turn - 1]) \in S
        /\ Searched(Search(s, p, mass[turn - 1]), turn, p, total)
    BY <1>1, <1>3, <2>1, <2>3, SearchTurn
  <2>5. f[turn] = Search(s, p, mass[turn - 1])
    BY <1>3, <1>7, <1>9, <2>2, <2>3, <2>4
  <2> QED
    BY <1>4, <2>2, <2>4, <2>5
<1>12. 0..N \subseteq G
  <2> HIDE DEF G
  <2>1. \A turn \in 1..N : turn - 1 \in G => turn \in G
    BY <1>11
  <2> QED
    BY <1>4, <1>10, <2>1, NaturalSteps
<1>13. \A turn \in 1..N : f[turn] = Search(f[turn - 1], p, mass[turn - 1])
  <2> HIDE DEF G
  <2>1. \A turn \in 1..N : turn - 1 \in 0..N
    OBVIOUS
  <2> QED
    BY <1>11, <1>12, <2>1
<1>14. f = [turn \in 0..(K + 1) |-> IF turn = 0 THEN start ELSE Search(f[turn - 1], p, mass[turn - 1])]
  <2>1. \A turn \in 0..N : f[turn] = IF turn = 0 THEN start ELSE Search(f[turn - 1], p, mass[turn - 1])
    BY <1>5, <1>9, <1>13
  <2> QED
    BY <1>4, <1>9, <2>1
<1>15. found = [turn \in 0..(K + 1) |->
                  IF turn = 0 THEN start ELSE Search(found[turn - 1], p, mass[turn - 1])]
  BY <1>14
<1> HIDE DEF found
<1> DEFINE H == {turn \in 0..N : found[turn] = f[turn]}
<1>16. 0 \in H
  BY <1>4, <1>5, <1>9, <1>15
<1>17. ASSUME NEW turn \in 1..N, turn - 1 \in H PROVE turn \in H
  <2>1. turn \in 0..(K + 1) /\ turn # 0 /\ found[turn - 1] = f[turn - 1]
    BY <1>4, <1>17
  <2>2. found[turn] = Search(found[turn - 1], p, mass[turn - 1])
    BY <1>15, <2>1
  <2> QED
    BY <1>4, <1>13, <2>1, <2>2
<1>18. N \in H
  <2> HIDE DEF H
  <2>1. \A turn \in 1..N : turn - 1 \in H => turn \in H
    BY <1>17
  <2>2. 0..N \subseteq H
    BY <1>4, <1>16, <2>1, NaturalSteps
  <2> QED
    BY <1>4, <2>2
<1>19. Searched(f[N], N, p, total) /\ f[N] \in S
  BY <1>4, <1>9, <1>12
<1>20. f[N].done
  <2>1. K \in -1..(N - 1) /\ total[K] \in Int
    BY <1>4 DEF AddsMasses
  <2> QED
    BY <1>1, <1>19, <2>1 DEF Searched
<1>21. PoissonInverseCdf(p, lambda, mass) = f[N].k
  BY <1>2, <1>4, <1>18
<1> QED
  BY <1>4, <1>19, <1>20, <1>21 DEF Searched

\* Whole targets and demands, and masses for all numbers the search looks at.
QuantileDomains ==
  /\ Len(Domains["quantile"]) = 3
  /\ Domains["quantile"][1] \subseteq Int /\ Domains["quantile"][2] \subseteq Int
  /\ \A lambda \in Domains["quantile"][2], mass \in Domains["quantile"][3] :
       \A k \in 0..(BoundFactor * lambda + BoundMargin) : mass[k] \in Int

\* The quota of a node is the smallest that is enough, for all masses.
THEOREM QuantilesCorrect ==
  ASSUME QuantileDomains
  PROVE  ArgumentsSpec => []QuantileIsLeast
<1>1. ASSUME ArgumentsTyped PROVE QuantileIsLeast
  <2> SUFFICES ASSUME Given("quantile") PROVE QuantileIsLeast
    BY DEF QuantileIsLeast
  <2>1. \A i \in 1..3 : input[i] \in Domains["quantile"][i]
    BY <1>1, ArgumentsGiven DEF QuantileDomains
  <2>2. PICK p \in Int, lambda \in Int, mass \in Domains["quantile"][3] :
          /\ p = input[1] /\ lambda = input[2] /\ mass = input[3]
          /\ lambda \in Domains["quantile"][2]
    BY <2>1 DEF QuantileDomains
  <2> DEFINE Cdf(k) == PoissonCdf(k, lambda, mass)
             quantile == PoissonInverseCdf(p, lambda, mass)
  <2>3. ASSUME lambda > 0, p \in 1..(Certain - 1), Cdf(BoundFactor * lambda + BoundMargin) >= p
        PROVE  Cdf(quantile) >= p /\ \A k \in -1..(quantile - 1) : Cdf(k) < p
    <3>1. BoundFactor * lambda \in Nat
      <4>1. lambda \in Nat
        BY <2>3
      <4> QED
        BY <4>1, PoissonAssumption
    <3>2. PICK K \in Nat : K = BoundFactor * lambda + BoundMargin
      BY <3>1, PoissonAssumption
    <3>3. \A k \in 0..K : mass[k] \in Int
      BY <2>2, <3>2 DEF QuantileDomains
    <3>4. PICK total : AddsMasses(total, mass, K)
      BY <3>3, MassesAdd
    <3>5. \A k \in -1..K : Cdf(k) = total[k]
      BY <2>3, <3>4, CdfAdds
    <3>6. total[K] >= p
      BY <2>3, <3>2, <3>5
    <3>7. quantile \in 0..K /\ total[quantile] >= p /\ \A j \in -1..(quantile - 1) : total[j] < p
      BY <2>3, <3>2, <3>4, <3>6, SearchEnds
    <3> HIDE DEF quantile, Cdf
    <3>8. \A k \in -1..(quantile - 1) : k \in -1..K
      BY <3>7
    <3> QED
      BY <3>5, <3>7, <3>8
  <2> QED
    BY <2>2, <2>3 DEF QuantileIsLeast
<1> QED
  BY <1>1, ArgumentsCorrect, PTL

-----------------------------------------------------------------------------
(* Sequences of lists, one after the other                                  *)

\* Lists of something, and those that come from appending N of them in order.
AreLists(T) == <<>> \in T /\ (\A a, b \in T : a \o b \in T) /\ \A a \in T : <<>> \o a = a
Appended(T, N, q, f) ==
  f \in [0..N -> T] /\ f[0] = <<>> /\ \A i \in 1..N : f[i] = f[i - 1] \o q[i]

\* Sequences are lists in this sense.
LEMMA SequencesAreLists ==
  ASSUME NEW S
  PROVE  AreLists(Seq(S))
<1>1. /\ <<>> \in Seq(S) /\ (\A a, b \in Seq(S) : a \o b \in Seq(S)) /\ \A a \in Seq(S) : <<>> \o a = a
  OBVIOUS
<1> QED
  BY <1>1 DEF AreLists

\* Appending lists one after the other can go on to the last.
LEMMA ListsRepeat ==
  ASSUME NEW T, AreLists(T), NEW N \in Nat, NEW q \in [1..N -> T]
  PROVE  \E f : Appended(T, N, q, f)
<1>0. <<>> \in T /\ \A a, b \in T : a \o b \in T
  BY DEF AreLists
<1>1. PICK none \in T : none = <<>>
  BY <1>0
<1>2. PICK step \in [1..N -> [T -> T]] : step = [i \in 1..N |-> [x \in T |-> x \o q[i]]]
  BY <1>0
<1> DEFINE f == Iteration(T, none, N, step)
<1>3. f \in [0..N -> T] /\ f[0] = none /\ \A i \in 1..N : f[i] = step[i][f[i - 1]]
  BY Iterates
<1> HIDE DEF f
<1>4. ASSUME NEW i \in 1..N PROVE f[i] = f[i - 1] \o q[i]
  <2>1. f[i - 1] \in T
    BY <1>3
  <2> QED
    BY <1>2, <1>3, <2>1
<1> QED
  BY <1>1, <1>3, <1>4 DEF Appended

Flattening(q) ==
  LET flatten[i \in 1..Len(q)] == IF i = 1 THEN q[i] ELSE flatten[i - 1] \o q[i]
  IN flatten

\* What flattening a sequence of lists gives: all of them appended in order.
LEMMA FlattenAppends ==
  ASSUME NEW T, AreLists(T), NEW N \in Nat, N # 0, NEW q \in [1..N -> T], Len(q) = N,
         NEW f, Appended(T, N, q, f)
  PROVE  FlattenSeq(q) = f[N]
<1>1. FlattenSeq(q) = Flattening(q)[N]
  BY DEF FlattenSeq, Flattening
<1> USE DEF AreLists, Appended
<1>3. PICK g : g = [i \in 1..N |-> f[i]]
  OBVIOUS
<1>4. f[1] = q[1]
  <2>1. 1 \in 1..N /\ 1 - 1 = 0
    OBVIOUS
  <2>2. f[1] = <<>> \o q[1]
    BY <2>1
  <2> QED
    BY <2>1, <2>2
<1>5. g = [i \in 1..N |-> IF i = 1 THEN q[i] ELSE g[i - 1] \o q[i]]
  <2>1. ASSUME NEW i \in 1..N PROVE f[i] = IF i = 1 THEN q[i] ELSE g[i - 1] \o q[i]
    <3>1. i # 1 => i - 1 \in 1..N
      OBVIOUS
    <3>2. i # 1 => g[i - 1] = f[i - 1]
      BY <1>3, <3>1
    <3> QED
      BY <1>4, <3>2
  <2> QED
    BY <1>3, <2>1
<1> DEFINE flat == Flattening(q)
           G == {i \in 0..N : i # 0 => flat[i] = f[i]}
<1>6. flat = [i \in 1..N |-> IF i = 1 THEN q[i] ELSE flat[i - 1] \o q[i]]
  BY <1>5 DEF Flattening
<1> HIDE DEF flat
<1>7. \A i \in 1..N : flat[i] = IF i = 1 THEN q[i] ELSE flat[i - 1] \o q[i]
  BY <1>6
<1>8. ASSUME NEW i \in 1..N, i - 1 \in G PROVE i \in G
  <2>1. i # 1 => flat[i - 1] = f[i - 1]
    BY <1>8
  <2>2. flat[i] = f[i]
    <3>1. CASE i = 1
      BY <1>4, <1>7, <3>1
    <3>2. CASE i # 1
      <4>1. flat[i] = f[i - 1] \o q[i]
        BY <1>7, <2>1, <3>2
      <4>2. f[i] = f[i - 1] \o q[i]
        OBVIOUS
      <4> QED
        BY <4>1, <4>2
    <3> QED
      BY <3>1, <3>2
  <2> QED
    BY <2>2
<1>9. 0..N \subseteq G
  <2>1. 0 \in G
    OBVIOUS
  <2> HIDE DEF G
  <2> QED
    BY <1>8, <2>1, NaturalSteps
<1> QED
  BY <1>1, <1>9 DEF flat

\* Flattening lists gives a list.
LEMMA FlattenLists ==
  ASSUME NEW T, AreLists(T), NEW N \in Nat, N # 0, NEW q \in [1..N -> T], Len(q) = N
  PROVE  FlattenSeq(q) \in T
<1>1. PICK f : Appended(T, N, q, f)
  BY ListsRepeat
<1>2. FlattenSeq(q) = f[N] /\ N \in 0..N
  BY <1>1, FlattenAppends
<1> QED
  BY <1>1, <1>2 DEF Appended

\* Lists of messages one after the other are a list of messages.
LEMMA FlattenTyped ==
  ASSUME NEW S, NEW N \in Nat, NEW q, q \in [1..N -> Seq(S)]
  PROVE  FlattenSeq(q) \in Seq(S)
<1>1. q \in Seq(Seq(S)) /\ Len(q) = N /\ <<>> \in Seq(S)
  OBVIOUS
<1>2. CASE N = 0
  <2>1. q = <<>>
    BY <1>1, <1>2, EmptySeq
  <2>2. FlattenSeq(q) = q
    BY <1>1, <1>2 DEF FlattenSeq
  <2> QED
    BY <1>1, <2>1, <2>2
<1>3. CASE N # 0
  <2>1. PICK T : T = Seq(S)
    OBVIOUS
  <2>2. q \in [1..N -> T] /\ AreLists(T)
    BY <1>1, <2>1, SequencesAreLists
  <2>3. FlattenSeq(q) \in T
    BY <1>1, <1>3, <2>2, FlattenLists
  <2> QED
    BY <2>1, <2>3
<1> QED
  BY <1>2, <1>3

\* Where each of the lists is in all of them: after those before it.
PiecesInOrder(N, q, f) ==
  /\ Len(f[0]) = 0 /\ \A i \in 0..N : Len(f[i]) \in 0..Len(f[N])
  /\ \A i \in 1..N : Len(f[i]) = Len(f[i - 1]) + Len(q[i])
  /\ \A i \in 1..N : \A j \in 1..Len(q[i]) : f[N][Len(f[i - 1]) + j] = q[i][j]

\* Where each of the appended sequences lies in the result.
LEMMA AppendedPieces ==
  ASSUME NEW S, NEW N \in Nat, NEW q, q \in [1..N -> Seq(S)], NEW f, Appended(Seq(S), N, q, f)
  PROVE  PiecesInOrder(N, q, f)
<1>1. PICK T : T = Seq(S)
  OBVIOUS
<1>2. f \in [0..N -> T] /\ f[0] = <<>> /\ \A i \in 1..N : f[i] = f[i - 1] \o q[i]
  BY <1>1 DEF Appended
<1>3. \A i \in 0..N : f[i] \in Seq(S)
  BY <1>1, <1>2
<1>4. ASSUME NEW i \in 1..N
      PROVE  /\ Len(f[i]) = Len(f[i - 1]) + Len(q[i])
             /\ \A j \in 1..Len(f[i - 1]) : f[i][j] = f[i - 1][j]
             /\ \A j \in 1..Len(q[i]) : f[i][Len(f[i - 1]) + j] = q[i][j]
  <2>1. PICK a, b : a = f[i - 1] /\ b = q[i]
    OBVIOUS
  <2>2. a \in Seq(S) /\ b \in Seq(S) /\ f[i] = a \o b
    <3>1. i - 1 \in 0..N
      OBVIOUS
    <3>2. b \in Seq(S)
      BY <2>1
    <3> QED
      BY <1>2, <1>3, <2>1, <3>1, <3>2
  <2> QED
    BY <2>1, <2>2
\* Every list of the first i stays where it is in the first k.
<1> DEFINE Stays(i, k) == /\ Len(f[i]) <= Len(f[k])
                          /\ \A j \in 1..Len(f[i]) : f[k][j] = f[i][j]
           G == {k \in 0..N : \A i \in 0..k : Stays(i, k)}
<1>5. \A i \in 0..N : Len(f[i]) \in Nat
  BY <1>3
<1>6. 0 \in G
  BY <1>5
<1>7. ASSUME NEW k \in 1..N, k - 1 \in G PROVE k \in G
  <2>1. ASSUME NEW i \in 0..k PROVE Stays(i, k)
    <3>1. CASE i = k
      BY <1>5, <3>1
    <3>2. CASE i # k
      <4>1. i \in 0..(k - 1) /\ i \in 0..N /\ k - 1 \in 0..N
        BY <3>2
      <4>2. Stays(i, k - 1)
        BY <1>7, <4>1
      <4>3. Len(q[k]) \in Nat
        BY <1>1
      <4> QED
        BY <1>4, <1>5, <4>1, <4>2, <4>3
    <3> QED
      BY <3>1, <3>2
  <2> QED
    BY <2>1
<1>8. \A i \in 0..N : Stays(i, N)
  <2> HIDE DEF G
  <2>1. \A k \in 1..N : k - 1 \in G => k \in G
    BY <1>7
  <2>2. 0..N \subseteq G
    BY <1>6, <2>1, NaturalSteps
  <2>3. N \in G
    BY <2>2
  <2> QED
    BY <2>3 DEF G
<1>9. ASSUME NEW i \in 1..N, NEW j \in 1..Len(q[i])
      PROVE  f[N][Len(f[i - 1]) + j] = q[i][j]
  <2>1. i \in 0..N /\ i - 1 \in 0..N /\ Len(q[i]) \in Nat
    BY <1>1
  <2>2. Len(f[i - 1]) + j \in 1..Len(f[i])
    BY <1>4, <1>5, <2>1
  <2> QED
    BY <1>4, <1>8, <2>1, <2>2
<1>10. Len(f[0]) = 0 /\ \A i \in 0..N : Len(f[i]) \in 0..Len(f[N])
  <2>1. N \in 0..N /\ 0 \in 0..N
    OBVIOUS
  <2> QED
    BY <1>2, <1>5, <1>8, <2>1
<1> QED
  BY <1>4, <1>9, <1>10 DEF PiecesInOrder

-----------------------------------------------------------------------------
(* Branches *)

\* Three heads, which no absent fork point is.
BranchDomains ==
  /\ Len(Domains["branches"]) = 3
  /\ \A i \in 1..3 : \A h \in Domains["branches"][i] :
       h # NoBase /\ \A t \in DOMAIN h : h[t] \in Nat

\* A merge without conflict keeps what either side changed.
KeepsChanges(base, src, tgt) ==
  LET diff == DiffWithBase(src, tgt, base)
      result == ApplyDiff(tgt, src, diff)
  IN /\ diff.modified = {t \in Changed(base, src) \cap Changed(base, tgt) : src[t] # tgt[t]}
     /\ CanAutoMerge(diff) =>
          /\ \A t \in Changed(base, src) : result[t] = src[t]
          /\ \A t \in Changed(base, tgt) : result[t] = tgt[t]
          /\ DOMAIN result = DOMAIN src \cup DOMAIN tgt

\* What either branch changed since the base is in the merged head.
LEMMA MergeKeepsChanges ==
  ASSUME NEW base, NEW src, NEW tgt, base # NoBase
  PROVE  KeepsChanges(base, src, tgt)
<1> DEFINE diff == DiffWithBase(src, tgt, base)
           result == ApplyDiff(tgt, src, diff)
           taken == diff.sourceOnly \cup diff.addedInSource
<1>1. /\ diff.sourceOnly = {t \in Differ(src, tgt) : UnchangedSince(base, tgt, t)}
      /\ diff.targetOnly = {t \in Differ(src, tgt) : UnchangedSince(base, src, t)}
      /\ diff.modified = Differ(src, tgt) \ (diff.sourceOnly \cup diff.targetOnly)
      /\ diff.addedInSource = DOMAIN src \ DOMAIN tgt
  BY DEF DiffWithBase
<1>2. result = [t \in DOMAIN tgt \cup taken |-> IF t \in taken THEN src[t] ELSE tgt[t]]
  BY DEF ApplyDiff
<1> HIDE DEF diff, result
<1>3. \A h, t : UnchangedSince(base, h, t) <=> t \in DOMAIN base /\ h[t] = base[t]
  BY DEF UnchangedSince
<1>4. \A t : t \in Differ(src, tgt) <=> t \in DOMAIN src /\ t \in DOMAIN tgt /\ src[t] # tgt[t]
  BY DEF Differ
<1>5. /\ \A t : t \in Changed(base, src) <=> t \in DOMAIN src /\ ~UnchangedSince(base, src, t)
      /\ \A t : t \in Changed(base, tgt) <=> t \in DOMAIN tgt /\ ~UnchangedSince(base, tgt, t)
  BY <1>3 DEF Changed
<1>6. \A t : t \in diff.modified <=>
        t \in Differ(src, tgt) /\ ~UnchangedSince(base, src, t) /\ ~UnchangedSince(base, tgt, t)
  BY <1>1
<1>7. diff.modified = {t \in Changed(base, src) \cap Changed(base, tgt) : src[t] # tgt[t]}
  BY <1>4, <1>5, <1>6
<1>8. ASSUME CanAutoMerge(diff)
      PROVE  /\ \A t \in Changed(base, src) : result[t] = src[t]
             /\ \A t \in Changed(base, tgt) : result[t] = tgt[t]
             /\ DOMAIN result = DOMAIN src \cup DOMAIN tgt
  <2>1. \A t \in Differ(src, tgt) : UnchangedSince(base, src, t) \/ UnchangedSince(base, tgt, t)
    BY <1>6, <1>8 DEF CanAutoMerge, HasConflicts
  <2>2. ASSUME NEW t \in Changed(base, src) PROVE result[t] = src[t]
    <3>1. t \in DOMAIN src /\ ~UnchangedSince(base, src, t)
      BY <1>5, <2>2
    <3>2. CASE t \in taken
      BY <1>2, <3>2
    <3>3. CASE t \notin taken
      <4>1. t \in DOMAIN tgt
        BY <1>1, <3>1, <3>3
      <4>2. src[t] = tgt[t]
        BY <1>1, <1>4, <2>1, <3>1, <3>3, <4>1
      <4> QED
        BY <1>2, <3>3, <4>1, <4>2
    <3> QED
      BY <3>2, <3>3
  <2>3. ASSUME NEW t \in Changed(base, tgt) PROVE result[t] = tgt[t]
    <3>1. t \in DOMAIN tgt /\ ~UnchangedSince(base, tgt, t)
      BY <1>5, <2>3
    <3>2. t \notin taken
      BY <1>1, <3>1
    <3> QED
      BY <1>2, <3>1, <3>2
  <2>4. DOMAIN result = DOMAIN src \cup DOMAIN tgt
    <3>1. DOMAIN result = DOMAIN tgt \cup taken
      BY <1>2
    <3>2. taken \subseteq DOMAIN src /\ DOMAIN src \ DOMAIN tgt \subseteq taken
      BY <1>1, <1>4
    <3> QED
      BY <3>1, <3>2
  <2> QED
    BY <2>2, <2>3, <2>4
<1> QED
  BY <1>7, <1>8 DEF diff, result, KeepsChanges

\* No merge takes a version of the target back.
LEMMA MergesGoForward ==
  ASSUME NEW base, NEW src, NEW tgt,
         \A t \in DOMAIN base : base[t] \in Nat, \A t \in DOMAIN src : src[t] \in Nat,
         \A t \in DOMAIN tgt : tgt[t] \in Nat
  PROVE  LET merged == ApplyDiff(tgt, src, DiffWithBase(src, tgt, base))
             forward == ApplyForward(tgt, src)
         IN /\ Since(tgt, forward)
            /\ \A t \in DOMAIN src : src[t] > 0 => forward[t] >= src[t]
            /\ Since(base, src) /\ Since(base, tgt) => Since(tgt, merged)
<1> DEFINE diff == DiffWithBase(src, tgt, base)
           merged == ApplyDiff(tgt, src, diff)
           taken == diff.sourceOnly \cup diff.addedInSource
           forward == ApplyForward(tgt, src)
<1>1. /\ diff.sourceOnly = {t \in Differ(src, tgt) : UnchangedSince(base, tgt, t)}
      /\ diff.addedInSource = DOMAIN src \ DOMAIN tgt
  BY DEF DiffWithBase
<1>2. merged = [t \in DOMAIN tgt \cup taken |-> IF t \in taken THEN src[t] ELSE tgt[t]]
  BY DEF ApplyDiff
<1>3. forward = [t \in DOMAIN tgt \cup {u \in DOMAIN src : src[u] > 0} |->
        IF t \in DOMAIN src /\ (t \notin DOMAIN tgt \/ src[t] > tgt[t]) THEN src[t] ELSE tgt[t]]
  BY DEF ApplyForward
<1> HIDE DEF diff, merged, forward
<1>4. Since(tgt, forward)
  BY <1>3 DEF Since
<1>5. \A t \in DOMAIN src : src[t] > 0 => forward[t] >= src[t]
  BY <1>3
<1>6. ASSUME Since(base, src), Since(base, tgt) PROVE Since(tgt, merged)
  <2>1. ASSUME NEW t \in DOMAIN tgt PROVE t \in DOMAIN merged /\ merged[t] >= tgt[t]
    <3>1. CASE t \in taken
      <4>1. t \in DOMAIN src /\ t \in DOMAIN base /\ tgt[t] = base[t]
        BY <1>1, <3>1 DEF Differ, UnchangedSince
      <4>2. src[t] >= base[t]
        BY <1>6, <4>1 DEF Since
      <4> QED
        BY <1>2, <3>1, <4>1, <4>2
    <3>2. CASE t \notin taken
      BY <1>2, <3>2
    <3> QED
      BY <3>1, <3>2
  <2> QED
    BY <2>1 DEF Since
<1> QED
  BY <1>4, <1>5, <1>6 DEF diff, merged, forward

\* Columns that any two leave another of.
SchemaDomains ==
  /\ Len(Domains["schema"]) = 3
  /\ \A i \in 2..3 : \A a \in Domains["schema"][i] : a[1] \in Columns
  /\ \A c, d \in Columns : \E e \in Columns : e \notin {c, d}

\* Every set of columns merges by itself exactly when the default does and the
\* annotated ones do.
LEMMA SchemaNeedsAll ==
  ASSUME NEW default, NEW c \in Columns, NEW o, NEW d \in Columns, NEW p,
         \E e \in Columns : e \notin {c, d}
  PROVE  LET s == AddColumn(AddColumn(NewSchema(default), c, o), d, p)
         IN /\ IsFullyConflictFree(s) <=> \A cs \in SUBSET Columns : CanAutoMergeColumns(s, cs)
            /\ ConflictFreeColumns(s) = {e \in DOMAIN s.columns : CanAutoMergeColumns(s, {e})}
            /\ ConflictFreeColumns(s) \cup ConflictingColumns(s) = {c, d}
<1>1. PICK s : s = AddColumn(AddColumn(NewSchema(default), c, o), d, p)
  OBVIOUS
<1>2. s.default = default /\ DOMAIN s.columns = {c, d}
  <2>1. PICK empty : empty = NewSchema(default)
    OBVIOUS
  <2>2. PICK one : one = AddColumn(empty, c, o)
    OBVIOUS
  <2>3. empty.default = default /\ DOMAIN empty.columns = {}
    BY <2>1 DEF NewSchema
  <2>4. one.default = default /\ DOMAIN one.columns = {c} /\ DOMAIN one = DOMAIN empty
    BY <2>1, <2>2, <2>3 DEF AddColumn, NewSchema
  <2>5. one = [columns |-> one.columns, default |-> default]
    BY <2>1, <2>2 DEF AddColumn, NewSchema
  <2> QED
    BY <1>1, <2>1, <2>2, <2>4, <2>5 DEF AddColumn
<1>3. PICK e \in Columns : e \notin {c, d}
  OBVIOUS
<1>4. /\ OpTypeOf(s, e) = default
      /\ \A x \in {c, d} : OpTypeOf(s, x) = s.columns[x].op
      /\ \A x \in Columns \ {c, d} : OpTypeOf(s, x) = default
  BY <1>2, <1>3 DEF OpTypeOf
<1>5. ASSUME \A cs \in SUBSET Columns : CanAutoMergeColumns(s, cs)
      PROVE  IsFullyConflictFree(s)
  <2>1. CanAutoMergeColumns(s, {c, d, e})
    BY <1>5
  <2> QED
    BY <1>2, <1>4, <2>1 DEF CanAutoMergeColumns, IsFullyConflictFree
<1>6. ASSUME IsFullyConflictFree(s), NEW cs \in SUBSET Columns
      PROVE  CanAutoMergeColumns(s, cs)
  BY <1>2, <1>4, <1>6 DEF CanAutoMergeColumns, IsFullyConflictFree
<1>7. ConflictFreeColumns(s) = {x \in DOMAIN s.columns : CanAutoMergeColumns(s, {x})}
  BY <1>2, <1>4 DEF ConflictFreeColumns, CanAutoMergeColumns
<1>8. ConflictFreeColumns(s) \cup ConflictingColumns(s) = {c, d}
  BY <1>2 DEF ConflictFreeColumns, ConflictingColumns
<1> QED
  BY <1>1, <1>5, <1>6, <1>7, <1>8

\* No operation that is conflict-free is in conflict about zero, truth or the
\* empty set.
LEMMA PlainValuesMerge ==
  ASSUME NEW op \in ConflictFree, NEW v \in {Integer(0), Boolean(TRUE), StringSet({})}
  PROVE  Merge(op, v, v) # Conflict
<1>1. CASE v = Integer(0)
  <2>1. 0 \in MinInt..MaxInt /\ 0 + 0 = 0 /\ 0 * 0 = 0
    BY IntAssumption
  <2>2. /\ Merge("MAX", v, v) # Conflict /\ Merge("MIN", v, v) # Conflict
        /\ Merge("UNION", v, v) # Conflict /\ Merge("INTERSECT", v, v) # Conflict
        /\ Merge("ADD", v, v) # Conflict /\ Merge("MULTIPLY", v, v) # Conflict
    BY <1>1, <2>1, IntegersMerge DEF Merged, Conflict, TypeMismatch
  <2> QED
    BY <2>2 DEF ConflictFree, Semilattice, Abelian
<1>2. CASE v = Boolean(TRUE)
  <2>1. v[1] = "Boolean"
    BY <1>2 DEF Boolean
  <2> QED
    BY <2>1 DEF ConflictFree, Semilattice, Abelian, Merge, MergeMax, MergeMin, MergeUnion, MergeIntersect,
                MergeAdd, MergeMultiply, IsNull, IsNumeric, HaveType, Merged, TypeMismatch, Conflict
<1>3. CASE v = StringSet({})
  <2>1. v[1] = "StringSet"
    BY <1>3 DEF StringSet
  <2> QED
    BY <2>1 DEF ConflictFree, Semilattice, Abelian, Merge, MergeMax, MergeMin, MergeUnion, MergeIntersect,
                MergeAdd, MergeMultiply, IsNull, IsNumeric, HaveType, Merged, TypeMismatch, Conflict
<1> QED
  BY <1>1, <1>2, <1>3

\* What the analyzer lets through merges without conflict, and nothing is left.
LEMMA AnalyzerSound == AnalyzerKnowsTheMerge
<1> DEFINE src == input[1]
           tgt == input[2]
           registry == input[3]
           diff == DiffWithBase(src, tgt, NoBase)
           analysis == Analyze(diff, registry)
           columns == AnalyzeColumns(diff, registry)
<1>1. ASSUME NEW t \in analysis.autoMergeable
      PROVE  /\ \A c \in Columns, v \in {Integer(0), Boolean(TRUE), StringSet({})} :
                  Merge(RegistryOpType(registry, t, c), v, v) # Conflict
             /\ columns[t][2] = {}
  <2>1. t \in diff.modified /\ t \in DOMAIN registry /\ IsFullyConflictFree(registry[t])
    BY <1>1 DEF Analyze, CanAutoMergeTable
  <2>2. \A c : RegistryOpType(registry, t, c) \in ConflictFree
    BY <2>1 DEF RegistryOpType, OpTypeOf, IsFullyConflictFree
  <2>3. ConflictingColumns(registry[t]) = {}
    BY <2>1 DEF ConflictingColumns, IsFullyConflictFree
  <2>4. columns[t] = <<ConflictFreeColumns(registry[t]), ConflictingColumns(registry[t])>>
    BY <2>1 DEF AnalyzeColumns, AnalyzeTableColumns
  <2>5. ASSUME NEW c \in Columns, NEW v \in {Integer(0), Boolean(TRUE), StringSet({})}
        PROVE  Merge(RegistryOpType(registry, t, c), v, v) # Conflict
    <3>1. PICK op \in ConflictFree : op = RegistryOpType(registry, t, c)
      BY <2>2
    <3>2. Merge(op, v, v) # Conflict
      BY PlainValuesMerge
    <3> QED
      BY <3>1, <3>2
  <2>6. columns[t][2] = {}
    BY <2>3, <2>4
  <2> QED
    BY <2>5, <2>6
<1>2. ASSUME CanMerge(analysis)
      PROVE  DOMAIN src \cup DOMAIN tgt = TablesToMerge(analysis) \cup analysis.unchanged
  <2>1. /\ diff.modified = Differ(src, tgt)
        /\ diff.addedInSource = DOMAIN src \ DOMAIN tgt
        /\ diff.addedInTarget = DOMAIN tgt \ DOMAIN src
        /\ diff.unchanged = {t \in DOMAIN src \cap DOMAIN tgt : src[t] = tgt[t]}
    BY DEF DiffWithBase, UnchangedSince
  <2> HIDE DEF diff
  <2>2. /\ analysis.sourceOnly = diff.addedInSource /\ analysis.targetOnly = diff.addedInTarget
        /\ analysis.unchanged = diff.unchanged
        /\ analysis.conflicting = diff.modified \ analysis.autoMergeable
        /\ analysis.autoMergeable \subseteq diff.modified
    BY DEF Analyze
  <2> HIDE DEF analysis
  <2>3. analysis.autoMergeable = diff.modified
    BY <1>2, <2>2 DEF CanMerge
  <2> HIDE DEF src, tgt
  <2>4. Differ(src, tgt) \cup diff.unchanged = DOMAIN src \cap DOMAIN tgt
    BY <2>1 DEF Differ
  <2> QED
    BY <2>1, <2>2, <2>3, <2>4 DEF TablesToMerge
<1> QED
  BY <1>1, <1>2 DEF AnalyzerKnowsTheMerge

-----------------------------------------------------------------------------
(* The names of branches and of their files                                 *)

\* Two characters one after the other in a name.
LEMMA TwoInRow ==
  ASSUME NEW C, NEW s \in Seq(C), NEW i \in 1..(Len(s) - 1), NEW a \in C, NEW b \in C
  PROVE  SubSeq(s, i, i + 1) = <<a, b>> <=> s[i] = a /\ s[i + 1] = b
<1>1. PICK two : two = SubSeq(s, i, i + 1)
  OBVIOUS
<1>2. i \in Nat /\ i + 1 <= Len(s) /\ Len(s) \in Nat
  OBVIOUS
<1>3. two \in Seq(C) /\ Len(two) = 2 /\ two[1] = s[i] /\ two[2] = s[i + 1]
  BY <1>1, <1>2
<1>4. PICK pair : pair = <<a, b>>
  OBVIOUS
<1>5. pair \in Seq(C) /\ Len(pair) = 2 /\ pair[1] = a /\ pair[2] = b
  BY <1>4
<1>6. two = pair <=> two[1] = a /\ two[2] = b
  <2>1. ASSUME two[1] = a, two[2] = b PROVE two = pair
    <3>1. \A j \in 1..Len(two) : two[j] = pair[j]
      BY <1>3, <1>5, <2>1
    <3> QED
      BY <1>3, <1>5, <3>1, SeqEqual
  <2> QED
    BY <1>5, <2>1
<1>7. two = pair <=> s[i] = a /\ s[i + 1] = b
  BY <1>3, <1>6
<1> QED
  BY <1>1, <1>4, <1>7

\* Two characters that a name does not have next to each other.
LEMMA TextAbsent ==
  ASSUME NEW C, NEW s \in Seq(C), NEW a \in C, NEW b \in C, ~HasText(s, <<a, b>>),
         NEW i \in 1..(Len(s) - 1)
  PROVE  ~(s[i] = a /\ s[i + 1] = b)
<1> SUFFICES ASSUME s[i] = a, s[i + 1] = b PROVE FALSE
  OBVIOUS
<1>1. PICK pair : pair = <<a, b>>
  OBVIOUS
<1>2. Len(pair) = 2 /\ SubSeq(s, i, i + 1) = pair
  BY <1>1, TwoInRow
<1>3. i \in 1..(Len(s) - Len(pair) + 1) /\ i + Len(pair) - 1 = i + 1
  BY <1>2
<1> QED
  BY <1>1, <1>2, <1>3 DEF HasText

\* One sequence after another.
Joins(a, b, both) ==
  /\ Len(both) = Len(a) + Len(b)
  /\ \A j \in 1..Len(a) : both[j] = a[j]
  /\ \A j \in 1..Len(b) : both[Len(a) + j] = b[j]

\* What the concatenation of two sequences holds, and where.
LEMMA Joined ==
  ASSUME NEW C, NEW a \in Seq(C), NEW b \in Seq(C)
  PROVE  a \o b \in Seq(C) /\ Joins(a, b, a \o b)
<1>0. PICK both : both = a \o b
  OBVIOUS
<1>1. both \in Seq(C)
  BY <1>0
<1>2. Len(both) = Len(a) + Len(b)
  BY <1>0
<1>3. ASSUME NEW j \in 1..Len(a) PROVE both[j] = a[j]
  BY <1>0
<1>4. ASSUME NEW j \in 1..Len(b) PROVE both[Len(a) + j] = b[j]
  BY <1>0
<1> QED
  BY <1>0, <1>1, <1>2, <1>3, <1>4 DEF Joins
\* A sequence is its first element and the others.
LEMMA FirstAndRest ==
  ASSUME NEW C, NEW c \in C, NEW rest \in Seq(C), NEW m \in Nat, Len(rest) = m,
         NEW whole \in Seq(C), Len(whole) = 1 + m, whole[1] = c,
         \A j \in 1..m : whole[1 + j] = rest[j]
  PROVE  whole = <<c>> \o rest
<1>1. PICK once : once = <<c>>
  OBVIOUS
<1>2. once \in Seq(C) /\ Len(once) = 1 /\ once[1] = c
  BY <1>1
<1>3. PICK both : both = once \o rest
  OBVIOUS
<1>4. /\ both \in Seq(C) /\ Len(both) = 1 + m /\ both[1] = c
      /\ \A j \in 1..m : both[1 + j] = rest[j]
  <2>1. both \in Seq(C) /\ Joins(once, rest, both)
    BY <1>2, <1>3, Joined, Zenon
  <2>2. /\ Len(both) = Len(once) + Len(rest)
        /\ \A j \in 1..Len(once) : both[j] = once[j]
        /\ \A j \in 1..Len(rest) : both[Len(once) + j] = rest[j]
    BY <2>1, Zenon DEF Joins
  <2>3. Len(both) = 1 + m /\ both[1] = c
    <3>1. 1 \in 1..Len(once)
      BY <1>2
    <3> QED
      BY <1>2, <2>2, <3>1
  <2>4. ASSUME NEW j \in 1..m PROVE both[1 + j] = rest[j]
    <3>1. j \in 1..Len(rest) /\ 1 + j = Len(once) + j
      BY <1>2
    <3> QED
      BY <2>2, <3>1
  <2> QED
    BY <2>1, <2>3, <2>4
<1>5. ASSUME NEW j \in 1..Len(whole) PROVE whole[j] = both[j]
  <2>1. CASE j = 1
    BY <1>4, <2>1
  <2>2. CASE j # 1
    <3>1. PICK k \in 1..m : j = 1 + k
      <4>1. j \in 1..(1 + m) /\ j - 1 \in 1..m /\ j = 1 + (j - 1)
        BY <2>2
      <4> QED
        BY <4>1
    <3> QED
      BY <1>4, <3>1
  <2> QED
    BY <2>1, <2>2
<1>6. whole = both
  BY <1>4, <1>5, SeqEqual
<1> QED
  BY <1>1, <1>3, <1>6

\* The file of a name and the name of a file, of whatever characters stand for
\* the underscore and the slash; two underscores one after the other, and one
\* turn of list's reading of a file, from position i on.
PathOf(name, u, s) ==
  LET upTo[i \in 0..Len(name)] ==
        IF i = 0 THEN <<>> ELSE upTo[i - 1] \o (IF name[i] = s THEN <<u, u>> ELSE <<name[i]>>)
  IN upTo[Len(name)]
NameOf(file, u, s) ==
  LET from[i \in 1..(Len(file) + 1)] ==
        CASE i > Len(file) -> <<>>
          [] i < Len(file) /\ SubSeq(file, i, i + 1) = <<u, u>> -> <<s>> \o from[i + 2]
          [] OTHER -> <<file[i]>> \o from[i + 1]
  IN from[1]
Doubled(file, i, u) == i < Len(file) /\ SubSeq(file, i, i + 1) = <<u, u>>
Slashed(g, i, s) == <<s>> \o g[i + 2]
Plainly(file, g, i) == <<file[i]>> \o g[i + 1]
Reads(file, g, i, u, s) ==
  CASE i > Len(file) -> <<>>
    [] i < Len(file) /\ SubSeq(file, i, i + 1) = <<u, u>> -> Slashed(g, i, s)
    [] OTHER -> Plainly(file, g, i)

\* The three ways to go on reading the name of a file.
LEMMA ReadsInTurn ==
  ASSUME NEW u, NEW s, NEW file, Len(file) \in Nat, NEW g, NEW i \in 1..(Len(file) + 1)
  PROVE  /\ i > Len(file) => Reads(file, g, i, u, s) = <<>>
         /\ Doubled(file, i, u) => i < Len(file) /\ Reads(file, g, i, u, s) = Slashed(g, i, s)
         /\ ~(i > Len(file)) /\ ~Doubled(file, i, u) => Reads(file, g, i, u, s) = Plainly(file, g, i)
<1>0. Doubled(file, i, u) => i < Len(file)
  <2>1. Doubled(file, i, u) => i < Len(file)
    BY DEF Doubled
  <2> QED
    BY <2>1
<1>1. PICK d \in BOOLEAN : d = Doubled(file, i, u)
  BY DEF Doubled
<1>2. PICK a, b, c : a = <<>> /\ b = Slashed(g, i, s) /\ c = Plainly(file, g, i)
  OBVIOUS
<1>3. Reads(file, g, i, u, s) = CASE i > Len(file) -> a [] d -> b [] OTHER -> c
  BY <1>1, <1>2, Zenon DEF Reads, Doubled
<1>4. CASE i > Len(file)
  <2>1. ~d
    BY <1>0, <1>1, <1>4
  <2>2. Reads(file, g, i, u, s) = a
    BY <1>3, <1>4, <2>1
  <2> QED
    BY <1>1, <1>2, <1>4, <2>1, <2>2
<1>5. CASE ~(i > Len(file))
  <2>1. ~(i > Len(file))
    BY <1>5
  <2>2. d => Reads(file, g, i, u, s) = b
    BY <1>3, <2>1
  <2>4. d => i < Len(file)
    BY <1>0, <1>1
  <2>3. ~d => Reads(file, g, i, u, s) = c
    BY <1>3, <2>1
  <2> QED
    BY <1>1, <1>2, <1>5, <2>2, <2>3, <2>4
<1> QED
  BY <1>4, <1>5

\* The reading of a file name goes on to its end.
ReadThrough(file, u, s, g) == g = [i \in 1..(Len(file) + 1) |-> Reads(file, g, i, u, s)]

\* Reading goes on to the end of the name of a file.
LEMMA ReadsToEnd ==
  ASSUME NEW u, NEW s, NEW file, Len(file) \in Nat
  PROVE  \E g : ReadThrough(file, u, s, g)
<1>0. PICK L \in Nat : L = Len(file)
  OBVIOUS
<1> DEFINE Read(k, g) == \A i \in (L + 2 - k)..(L + 1) : g[i] = Reads(file, g, i, u, s)
           From(k) == (L + 2 - k)..(L + 1)
           G == {k \in 0..(L + 1) : \E g : g = [i \in From(k) |-> g[i]] /\ Read(k, g)}
<1>1. 0 \in G
  <2>1. PICK g : g = [i \in From(0) |-> 0]
    OBVIOUS
  <2>2. g = [i \in From(0) |-> g[i]] /\ Read(0, g)
    BY <2>1
  <2> QED
    BY <2>2
<1>2. ASSUME NEW k \in 1..(L + 1), k - 1 \in G PROVE k \in G
  <2>1. PICK g : g = [i \in From(k - 1) |-> g[i]] /\ Read(k - 1, g)
    BY <1>2
  <2>2. PICK j \in 1..(L + 1) : j = L + 2 - k
    OBVIOUS
  <2>3. PICK h : h = [i \in From(k) |-> IF i = j THEN Reads(file, g, j, u, s) ELSE g[i]]
    OBVIOUS
  <2>4. \A i \in (j + 1)..(L + 1) : h[i] = g[i] /\ i \in From(k - 1)
    BY <2>2, <2>3
  <2>8. Len(file) = L /\ Len(file) \in Nat
    BY <1>0
  <2>5. ASSUME NEW i \in From(k) PROVE Reads(file, h, i, u, s) = Reads(file, g, i, u, s)
    <3>1. i \in 1..(L + 1) /\ i >= j
      BY <2>2
    <3>2. CASE i > L
      BY <2>8, <3>1, <3>2, ReadsInTurn
    <3>3. CASE Doubled(file, i, u)
      <4>1. i < L
        BY <2>8, <3>1, <3>3, ReadsInTurn
      <4>2. h[i + 2] = g[i + 2]
        BY <2>4, <3>1, <4>1
      <4>3. Slashed(h, i, s) = Slashed(g, i, s)
        BY <4>2, Zenon DEF Slashed
      <4> QED
        BY <2>8, <3>1, <3>3, <4>3, ReadsInTurn
    <3>4. CASE ~(i > L) /\ ~Doubled(file, i, u)
      <4>1. h[i + 1] = g[i + 1]
        BY <2>4, <3>1, <3>4
      <4>2. Plainly(file, h, i) = Plainly(file, g, i)
        BY <4>1, Zenon DEF Plainly
      <4> QED
        BY <2>8, <3>1, <3>4, <4>2, ReadsInTurn
    <3> QED
      BY <3>2, <3>3, <3>4
  <2>6. ASSUME NEW i \in From(k) PROVE h[i] = Reads(file, h, i, u, s)
    <3>1. CASE i = j
      BY <2>3, <2>5, <3>1
    <3>2. CASE i # j
      <4>1. h[i] = g[i] /\ i \in From(k - 1)
        BY <2>2, <2>4, <3>2
      <4>2. g[i] = Reads(file, g, i, u, s)
        BY <2>1, <4>1
      <4> QED
        BY <2>5, <4>1, <4>2
    <3> QED
      BY <3>1, <3>2
  <2>7. h = [i \in From(k) |-> h[i]]
    BY <2>3
  <2>9. \E x : x = [i \in From(k) |-> x[i]] /\ Read(k, x)
    BY <2>6, <2>7
  <2>10. k \in 0..(L + 1)
    OBVIOUS
  <2> QED
    BY <2>9, <2>10, Zenon
<1>3. L + 1 \in G
  <2>1. PICK N \in Nat : N = L + 1
    OBVIOUS
  <2> HIDE DEF G
  <2>2. \A k \in 1..N : k - 1 \in G => k \in G
    BY <1>2, <2>1
  <2>3. 0..N \subseteq G
    BY <1>1, <2>1, <2>2, NaturalSteps
  <2> QED
    BY <2>1, <2>3
<1>4. PICK g : g = [i \in From(L + 1) |-> g[i]] /\ Read(L + 1, g)
  BY <1>3
<1>5. \A i \in 1..(L + 1) : g[i] = Reads(file, g, i, u, s)
  BY <1>4
<1>6. g = [i \in 1..(L + 1) |-> g[i]]
  <2>1. From(L + 1) = 1..(L + 1)
    OBVIOUS
  <2> QED
    BY <1>4, <2>1
<1>7. g = [i \in 1..(L + 1) |-> Reads(file, g, i, u, s)]
  BY <1>5, <1>6
<1> QED
  BY <1>0, <1>7 DEF ReadThrough

\* The file of a name spells it out, its i-th character from place at[i] on.
Spells(name, n, file, L, at, u, s) ==
  /\ at[1] = 1 /\ at[n + 1] = L + 1 /\ \A i \in 1..(n + 1) : at[i] \in 1..(L + 1)
  /\ \A i \in 1..n : name[i] = s =>
       at[i + 1] = at[i] + 2 /\ file[at[i]] = u /\ file[at[i] + 1] = u
  /\ \A i \in 1..n : name[i] # s => at[i + 1] = at[i] + 1 /\ file[at[i]] = name[i]

\* The file of a name spells its characters one after the other.
LEMMA NamesSpelled ==
  ASSUME NEW C, NEW u \in C, NEW s, NEW name \in Seq(C), NEW n \in Nat, n = Len(name), n # 0
  PROVE  \E file, L, at :
           /\ file \in Seq(C) /\ L \in Nat
           /\ file = PathOf(name, u, s) /\ L = Len(file) /\ Spells(name, n, file, L, at, u, s)
<1>0. PICK twice : twice = <<u, u>>
  OBVIOUS
<1>1. twice = <<u, u>> /\ twice \in Seq(C) /\ Len(twice) = 2 /\ twice[1] = u /\ twice[2] = u
  BY <1>0
<1>2. PICK q : q = [i \in 1..n |-> IF name[i] = s THEN <<u, u>> ELSE <<name[i]>>]
  OBVIOUS
<1>3. ASSUME NEW i \in 1..n
      PROVE  /\ q[i] \in Seq(C)
             /\ name[i] = s => Len(q[i]) = 2 /\ q[i][1] = u /\ q[i][2] = u
             /\ name[i] # s => Len(q[i]) = 1 /\ q[i][1] = name[i]
  <2>1. PICK c \in C : c = name[i]
    OBVIOUS
  <2>0. PICK once : once = <<c>>
    OBVIOUS
  <2>2. once = <<c>> /\ once \in Seq(C) /\ Len(once) = 1 /\ once[1] = c
    BY <2>0
  <2>3. q[i] = IF name[i] = s THEN twice ELSE once
    BY <1>1, <1>2, <2>1, <2>2
  <2>4. CASE name[i] = s
    <3>1. q[i] = twice
      BY <2>3, <2>4
    <3> QED
      BY <1>1, <2>4, <3>1
  <2>5. CASE name[i] # s
    <3>1. q[i] = once
      BY <2>3, <2>5
    <3> QED
      BY <2>1, <2>2, <2>5, <3>1
  <2> QED
    BY <2>4, <2>5
<1>4. PICK T : T = Seq(C)
  OBVIOUS
<1>5. q \in [1..n -> T] /\ q \in [1..n -> Seq(C)] /\ DOMAIN q = 1..n /\ Len(q) = n /\ AreLists(T)
  <2>1. \A i \in 1..n : q[i] \in T
    BY <1>3, <1>4
  <2>2. q \in [1..n -> T]
    BY <1>2, <2>1
  <2>3. q \in Seq(T) /\ Len(q) = n
    BY <2>2
  <2> QED
    BY <1>4, <2>2, <2>3, SequencesAreLists
<1>6. PICK f : Appended(T, n, q, f)
  BY <1>5, ListsRepeat
<1>7. PICK file : file = f[n]
  OBVIOUS
<1>8. file = PathOf(name, u, s)
  <2> DEFINE upTo[i \in 0..Len(name)] ==
               IF i = 0 THEN <<>> ELSE upTo[i - 1] \o (IF name[i] = s THEN <<u, u>> ELSE <<name[i]>>)
             G == {i \in 0..n : upTo[i] = f[i]}
  <2>1. /\ f[0] = <<>> /\ f = [i \in 0..n |-> f[i]]
        /\ \A i \in 1..n : f[i] = f[i - 1] \o (IF name[i] = s THEN <<u, u>> ELSE <<name[i]>>)
    BY <1>2, <1>6 DEF Appended
  <2>2. f = [i \in 0..Len(name) |->
               IF i = 0 THEN <<>> ELSE f[i - 1] \o (IF name[i] = s THEN <<u, u>> ELSE <<name[i]>>)]
    BY <2>1
  <2>3. upTo = [i \in 0..Len(name) |->
               IF i = 0 THEN <<>> ELSE upTo[i - 1] \o (IF name[i] = s THEN <<u, u>> ELSE <<name[i]>>)]
    BY <2>2, Zenon
  <2>4. PathOf(name, u, s) = upTo[Len(name)]
    BY Zenon DEF PathOf
  <2> HIDE DEF upTo
  <2>4a. /\ upTo[0] = <<>>
         /\ \A i \in 1..n : upTo[i] = upTo[i - 1] \o (IF name[i] = s THEN <<u, u>> ELSE <<name[i]>>)
    <3>1. 0 \in 0..Len(name) /\ \A i \in 1..n : i \in 0..Len(name) /\ i # 0
      OBVIOUS
    <3>2. upTo[0] = <<>>
      BY <2>3, <3>1, Zenon
    <3>3. ASSUME NEW i \in 1..n
          PROVE  upTo[i] = upTo[i - 1] \o (IF name[i] = s THEN <<u, u>> ELSE <<name[i]>>)
      BY <2>3, <3>1, Zenon
    <3> QED
      BY <3>2, <3>3
  <2>5. 0 \in G
    <3>1. 0 \in 0..n
      OBVIOUS
    <3> QED
      BY <2>1, <2>4a, <3>1, Zenon
  <2>6. ASSUME NEW i \in 1..n, i - 1 \in G PROVE i \in G
    <3>1. i \in 0..n
      OBVIOUS
    <3> QED
      BY <2>1, <2>4a, <2>6, <3>1, Zenon
  <2>7. n \in G
    <3> HIDE DEF G
    <3>1. \A i \in 1..n : i - 1 \in G => i \in G
      BY <2>6
    <3>2. 0..n \subseteq G
      BY <2>5, <3>1, NaturalSteps
    <3> QED
      BY <3>2
  <2> QED
    BY <1>7, <2>4, <2>7
<1>9. file \in Seq(C) /\ \A i \in 0..n : f[i] \in Seq(C)
  BY <1>4, <1>6, <1>7 DEF Appended
<1>10. PICK L \in Nat : L = Len(file)
  BY <1>9
<1>11. PiecesInOrder(n, q, f)
  BY <1>4, <1>5, <1>6, AppendedPieces
<1>12. PICK size : size = [i \in 0..n |-> Len(f[i])]
  OBVIOUS
<1>13. /\ size[0] = 0 /\ size[n] = L /\ \A i \in 0..n : size[i] \in 0..L
       /\ \A i \in 1..n : size[i] = size[i - 1] + Len(q[i])
       /\ \A i \in 1..n : \A j \in 1..Len(q[i]) : file[size[i - 1] + j] = q[i][j]
  <2>1. /\ Len(f[0]) = 0 /\ \A i \in 0..n : Len(f[i]) \in 0..Len(f[n])
        /\ \A i \in 1..n : Len(f[i]) = Len(f[i - 1]) + Len(q[i])
        /\ \A i \in 1..n : \A j \in 1..Len(q[i]) : f[n][Len(f[i - 1]) + j] = q[i][j]
    BY <1>11, Zenon DEF PiecesInOrder
  <2>2. \A i \in 0..n : size[i] = Len(f[i])
    BY <1>12
  <2>3. size[0] = 0 /\ size[n] = L /\ \A i \in 0..n : size[i] \in 0..L
    BY <1>7, <1>10, <2>1, <2>2
  <2>4. ASSUME NEW i \in 1..n
        PROVE  /\ size[i] = size[i - 1] + Len(q[i])
               /\ \A j \in 1..Len(q[i]) : file[size[i - 1] + j] = q[i][j]
    <3>1. i \in 0..n /\ i - 1 \in 0..n
      OBVIOUS
    <3> QED
      BY <1>7, <2>1, <2>2, <3>1
  <2> QED
    BY <2>3, <2>4
<1>14. PICK at : at = [i \in 1..(n + 1) |-> size[i - 1] + 1]
  OBVIOUS
<1>15. at[1] = 1 /\ at[n + 1] = L + 1
  <2>1. 1 \in 1..(n + 1) /\ n + 1 \in 1..(n + 1) /\ 1 - 1 = 0 /\ n + 1 - 1 = n
    OBVIOUS
  <2> QED
    BY <1>13, <1>14, <2>1
<1>16. ASSUME NEW i \in 1..(n + 1) PROVE at[i] \in 1..(L + 1)
  <2>1. size[i - 1] \in 0..L
    BY <1>13
  <2> QED
    BY <1>14, <2>1
<1>17. ASSUME NEW i \in 1..n
       PROVE  /\ name[i] = s => at[i + 1] = at[i] + 2 /\ file[at[i]] = u /\ file[at[i] + 1] = u
              /\ name[i] # s => at[i + 1] = at[i] + 1 /\ file[at[i]] = name[i]
  <2>1. i \in 1..(n + 1) /\ i + 1 \in 1..(n + 1) /\ i + 1 - 1 = i
    OBVIOUS
  <2>2. PICK a \in Nat : a = size[i - 1]
    BY <1>13
  <2>3. at[i] = a + 1 /\ at[i + 1] = size[i] + 1
    BY <1>14, <2>1, <2>2
  <2>4. size[i] = a + Len(q[i]) /\ \A j \in 1..Len(q[i]) : file[a + j] = q[i][j]
    BY <1>13, <2>2
  <2>5. CASE name[i] = s
    <3>1. Len(q[i]) = 2 /\ q[i][1] = u /\ q[i][2] = u
      BY <1>3, <2>5
    <3>2. file[a + 1] = u /\ file[a + 2] = u /\ at[i + 1] = a + 3 /\ at[i] + 1 = a + 2
      BY <2>3, <2>4, <3>1
    <3> QED
      BY <2>2, <2>3, <2>5, <3>2
  <2>6. CASE name[i] # s
    <3>1. Len(q[i]) = 1 /\ q[i][1] = name[i]
      BY <1>3, <2>6
    <3>2. file[a + 1] = name[i] /\ at[i + 1] = a + 2
      BY <2>3, <2>4, <3>1
    <3> QED
      BY <2>2, <2>3, <2>6, <3>2
  <2> QED
    BY <2>5, <2>6
<1>18. Spells(name, n, file, L, at, u, s)
  BY <1>15, <1>16, <1>17 DEF Spells
<1> QED
  BY <1>8, <1>9, <1>10, <1>18

\* What is read of the file of a name is the name.
LEMMA NamesReadBack ==
  ASSUME NEW C, NEW u \in C, NEW s \in C, NEW name \in Seq(C), name # <<>>,
         ~HasText(name, <<u, u>>), ~HasText(name, <<u, s>>)
  PROVE  NameOf(PathOf(name, u, s), u, s) = name
<1>1. PICK n \in Nat : n = Len(name) /\ n # 0
  BY EmptySeq
<1>1a. PICK file \in Seq(C), L \in Nat : \E at :
         file = PathOf(name, u, s) /\ L = Len(file) /\ Spells(name, n, file, L, at, u, s)
  BY <1>1, NamesSpelled
<1>2. PICK at : file = PathOf(name, u, s) /\ L = Len(file) /\ Spells(name, n, file, L, at, u, s)
  BY <1>1a
<1>3. /\ at[1] = 1 /\ at[n + 1] = L + 1 /\ \A i \in 1..(n + 1) : at[i] \in 1..(L + 1)
      /\ \A i \in 1..n : name[i] = s =>
           at[i + 1] = at[i] + 2 /\ file[at[i]] = u /\ file[at[i] + 1] = u
      /\ \A i \in 1..n : name[i] # s => at[i + 1] = at[i] + 1 /\ file[at[i]] = name[i]
  BY <1>2 DEF Spells
\* Where the reading stands for a slash.
<1>4. ASSUME NEW k \in 1..L
      PROVE  Doubled(file, k, u) <=> k < L /\ file[k] = u /\ file[k + 1] = u
  <2>1. CASE k < L
    <3>1. k \in 1..(Len(file) - 1)
      BY <1>2, <2>1
    <3>2. SubSeq(file, k, k + 1) = <<u, u>> <=> file[k] = u /\ file[k + 1] = u
      BY <3>1, TwoInRow
    <3> QED
      BY <1>2, <2>1, <3>2 DEF Doubled
  <2>2. CASE ~(k < L)
    BY <1>2, <2>2 DEF Doubled
  <2> QED
    BY <2>1, <2>2
<1>5. ASSUME NEW i \in 1..n
      PROVE  /\ at[i] \in 1..L /\ at[i + 1] \in 1..(L + 1)
             /\ name[i] = s => Doubled(file, at[i], u)
             /\ name[i] # s => ~Doubled(file, at[i], u)
  <2>1. i \in 1..(n + 1) /\ i + 1 \in 1..(n + 1)
    OBVIOUS
  <2>2. PICK a \in 1..(L + 1), b \in 1..(L + 1) : a = at[i] /\ b = at[i + 1]
    BY <1>3, <2>1
  <2>3. name[i] = s => b = a + 2 /\ file[a] = u /\ file[a + 1] = u
    BY <1>3, <2>2
  <2>4. name[i] # s => b = a + 1 /\ file[a] = name[i]
    BY <1>3, <2>2
  <2>5. a \in 1..L
    BY <2>3, <2>4
  <2>6. name[i] = s => Doubled(file, a, u)
    <3>1. name[i] = s => a < L
      BY <2>3
    <3> QED
      BY <1>4, <2>3, <2>5, <3>1
  <2>7. ASSUME name[i] # s, Doubled(file, a, u) PROVE FALSE
    <3>1. a < L /\ file[a] = u /\ file[a + 1] = u
      BY <1>4, <2>5, <2>7
    <3>2. b = a + 1 /\ name[i] = u
      BY <2>4, <2>7, <3>1
    <3>3. i # n
      <4>1. i = n => b = L + 1
        BY <1>3, <2>2
      <4> QED
        BY <3>1, <3>2, <4>1
    <3>4. PICK next \in 1..n : next = i + 1
      BY <3>3
    <3>5. at[next] = b /\ file[b] = u /\ i \in 1..(Len(name) - 1)
      <4>1. at[next] = b
        BY <2>2, <3>4
      <4>2. file[b] = u
        BY <3>1, <3>2
      <4>3. i \in 1..(Len(name) - 1)
        BY <1>1, <3>4
      <4> QED
        BY <4>1, <4>2, <4>3
    <3>6. name[next] # s => name[next] = u
      <4>1. name[next] # s => file[at[next]] = name[next]
        BY <1>3
      <4> QED
        BY <3>5, <4>1
    <3>7. name[next] # u
      BY <3>2, <3>4, <3>5, TextAbsent
    <3>8. name[next] # s
      BY <3>2, <3>4, <3>5, TextAbsent
    <3> QED
      BY <3>6, <3>7, <3>8
  <2> QED
    BY <2>2, <2>5, <2>6, <2>7
<1> DEFINE from[i \in 1..(L + 1)] ==
             CASE i > Len(file) -> <<>>
               [] i < Len(file) /\ SubSeq(file, i, i + 1) = <<u, u>> -> <<s>> \o from[i + 2]
               [] OTHER -> <<file[i]>> \o from[i + 1]
<1>6. NameOf(file, u, s) = from[1]
  BY <1>2 DEF NameOf
<1>7. from = [i \in 1..(L + 1) |-> Reads(file, from, i, u, s)]
  <2>1. PICK g : ReadThrough(file, u, s, g)
    BY <1>2, ReadsToEnd
  <2>2. g = [i \in 1..(L + 1) |-> Reads(file, g, i, u, s)]
    BY <1>2, <2>1, Zenon DEF ReadThrough
  <2> QED
    BY <2>2, Zenon DEF Reads, Slashed, Plainly
<1> HIDE DEF from
<1>8. \A i \in 1..(L + 1) : from[i] = Reads(file, from, i, u, s)
  BY <1>7
<1> DEFINE G == {k \in 0..n : from[at[n + 1 - k]] = SubSeq(name, n + 1 - k, n)}
<1>9. 0 \in G
  <2>1. L + 1 \in 1..(L + 1) /\ L + 1 > L
    OBVIOUS
  <2>2. from[L + 1] = <<>>
    <3>1. from[L + 1] = Reads(file, from, L + 1, u, s)
      BY <1>8, <2>1
    <3> QED
      BY <1>2, <2>1, <3>1, ReadsInTurn
  <2>3. SubSeq(name, n + 1, n) = <<>>
    BY <1>1
  <2>4. from[at[n + 1]] = SubSeq(name, n + 1, n)
    BY <1>3, <2>2, <2>3
  <2>5. n + 1 - 0 = n + 1
    OBVIOUS
  <2> QED
    BY <2>4, <2>5
<1>10. ASSUME NEW k \in 1..n, k - 1 \in G PROVE k \in G
  <2>1. PICK i \in 1..n : i = n + 1 - k /\ i + 1 = n + 1 - (k - 1)
    OBVIOUS
  <2>2. PICK a \in 1..L, b \in 1..(L + 1) : a = at[i] /\ b = at[i + 1]
    BY <1>5
  <2>3. PICK rest : rest = SubSeq(name, i + 1, n)
    OBVIOUS
  <2>4. from[b] = rest
    BY <1>10, <2>1, <2>2, <2>3
  <2>5. SubSeq(name, i, n) = <<name[i]>> \o rest
    <3>0. name[i] \in C /\ n - i \in Nat
      BY <1>1
    <3>1. PICK c \in C, m \in Nat : c = name[i] /\ m = n - i
      BY <3>0
    <3>2. PICK whole : whole = SubSeq(name, i, n)
      OBVIOUS
    <3>3. /\ whole \in Seq(C) /\ Len(whole) = 1 + m
          /\ \A j \in 1..(1 + m) : whole[j] = name[i + j - 1]
      BY <1>1, <3>1, <3>2
    <3>4. rest \in Seq(C) /\ Len(rest) = m /\ \A j \in 1..m : rest[j] = name[i + j]
      BY <1>1, <2>3, <3>1
    <3>5. whole[1] = c
      BY <3>1, <3>3
    <3>6. ASSUME NEW j \in 1..m PROVE whole[1 + j] = rest[j]
      <4>1. 1 + j \in 1..(1 + m) /\ i + (1 + j) - 1 = i + j
        OBVIOUS
      <4> QED
        BY <3>3, <3>4, <4>1
    <3>7. whole = <<c>> \o rest
      BY <3>3, <3>4, <3>5, <3>6, FirstAndRest
    <3> QED
      BY <3>1, <3>2, <3>7
  <2>6. a \in 1..(L + 1) /\ ~(a > L) /\ from[a] = Reads(file, from, a, u, s)
    BY <1>8
  <2>7. CASE name[i] = s
    <3>1. Doubled(file, a, u) /\ b = a + 2
      BY <1>3, <1>5, <2>2, <2>7
    <3>2. Reads(file, from, a, u, s) = Slashed(from, a, s)
      BY <1>2, <2>6, <3>1, ReadsInTurn
    <3>3. Slashed(from, a, s) = <<name[i]>> \o rest
      BY <2>4, <2>7, <3>1, Zenon DEF Slashed
    <3>4. from[at[i]] = SubSeq(name, i, n)
      BY <2>2, <2>5, <2>6, <3>2, <3>3, Zenon
    <3> QED
      BY <2>1, <3>4
  <2>8. CASE name[i] # s
    <3>1. ~Doubled(file, a, u) /\ b = a + 1 /\ file[a] = name[i]
      BY <1>3, <1>5, <2>2, <2>8
    <3>2. Reads(file, from, a, u, s) = Plainly(file, from, a)
      BY <1>2, <2>6, <3>1, ReadsInTurn
    <3>3. Plainly(file, from, a) = <<name[i]>> \o rest
      BY <2>4, <3>1, Zenon DEF Plainly
    <3>4. from[at[i]] = SubSeq(name, i, n)
      BY <2>2, <2>5, <2>6, <3>2, <3>3, Zenon
    <3> QED
      BY <2>1, <3>4
  <2> QED
    BY <2>7, <2>8
<1>11. n \in G
  <2> HIDE DEF G
  <2>1. \A k \in 1..n : k - 1 \in G => k \in G
    BY <1>10
  <2>2. 0..n \subseteq G
    BY <1>9, <2>1, NaturalSteps
  <2> QED
    BY <2>2
<1>12. from[1] = SubSeq(name, 1, n)
  <2>1. n + 1 - n = 1
    OBVIOUS
  <2> QED
    BY <1>3, <1>11, <2>1
<1>13. SubSeq(name, 1, n) = name
  <2>1. PICK whole \in Seq(C) : whole = SubSeq(name, 1, n) /\ Len(whole) = n
                              /\ \A j \in 1..n : whole[j] = name[j]
    BY <1>1
  <2> QED
    BY <1>1, <2>1, SeqEqual
<1> QED
  BY <1>2, <1>6, <1>12, <1>13

\* The file of a branch lists under the branch's name.
LEMMA NamesListed ==
  ASSUME NEW C, "_" \in C, "/" \in C, NEW name \in Seq(C), ValidBranchName(name), ~Touching(name)
  PROVE  ListedName(BranchPath(name)) = name
<1>1. NameOf(PathOf(name, "_", "/"), "_", "/") = name
  BY NamesReadBack, Zenon DEF ValidBranchName, Touching
<1>2. BranchPath(name) = PathOf(name, "_", "/")
  BY Zenon DEF BranchPath, PathOf
<1>3. ListedName(PathOf(name, "_", "/")) = NameOf(PathOf(name, "_", "/"), "_", "/")
  BY Zenon DEF ListedName, NameOf
<1> QED
  BY <1>1, <1>2, <1>3, Zenon

\* Names over any characters that include those the encoding uses.
NameDomains ==
  /\ Len(Domains["names"]) = 2
  /\ \E C : "_" \in C /\ "/" \in C /\ \A i \in 1..2 : Domains["names"][i] \subseteq Seq(C)

\* The properties of merged branches hold of all arguments.
LEMMA ChangesKept ==
  ASSUME BranchDomains, ArgumentsTyped
  PROVE  MergeLosesNoChange /\ MergeNeverRegresses
<1>1. ASSUME Given("branches")
      PROVE  \A i \in 1..3 : input[i] # NoBase /\ \A t \in DOMAIN input[i] : input[i][t] \in Nat
  <2>1. \A i \in 1..3 : input[i] \in Domains["branches"][i]
    BY <1>1, ArgumentsGiven DEF BranchDomains
  <2> QED
    BY <2>1 DEF BranchDomains
<1>2. PICK base, src, tgt : base = input[1] /\ src = input[2] /\ tgt = input[3]
  OBVIOUS
<1>3. ASSUME Given("branches")
      PROVE  /\ base # NoBase /\ \A t \in DOMAIN base : base[t] \in Nat
             /\ \A t \in DOMAIN src : src[t] \in Nat
             /\ \A t \in DOMAIN tgt : tgt[t] \in Nat
  <2>1. 1 \in 1..3 /\ 2 \in 1..3 /\ 3 \in 1..3
    OBVIOUS
  <2> QED
    BY <1>1, <1>2, <1>3, <2>1
<1>4. MergeLosesNoChange
  <2>1. ASSUME Given("branches") PROVE KeepsChanges(input[1], input[2], input[3])
    BY <1>2, <1>3, <2>1, MergeKeepsChanges
  <2> QED
    BY <2>1, Zenon DEF MergeLosesNoChange, KeepsChanges
<1>5. MergeNeverRegresses
  <2>1. ASSUME Given("branches")
        PROVE  LET merged == ApplyDiff(tgt, src, DiffWithBase(src, tgt, base))
                   forward == ApplyForward(tgt, src)
               IN /\ Since(tgt, forward)
                  /\ \A t \in DOMAIN src : src[t] > 0 => forward[t] >= src[t]
                  /\ Since(base, src) /\ Since(base, tgt) => Since(tgt, merged)
    BY <1>3, <2>1, MergesGoForward
  <2> QED
    BY <1>2, <2>1, Zenon DEF MergeNeverRegresses
<1> QED
  BY <1>4, <1>5

\* So does that of schemas.
LEMMA ColumnsNeeded ==
  ASSUME SchemaDomains, ArgumentsTyped
  PROVE  AutoMergeNeedsEveryColumn
<1>1. SUFFICES ASSUME Given("schema") PROVE AutoMergeNeedsEveryColumn
  BY DEF AutoMergeNeedsEveryColumn
<1>2. \A i \in 1..3 : input[i] \in Domains["schema"][i]
  BY <1>1, ArgumentsGiven DEF SchemaDomains
<1>3. PICK default, c, o, d, p :
        default = input[1] /\ c = input[2][1] /\ o = input[2][2] /\ d = input[3][1] /\ p = input[3][2]
  OBVIOUS
<1>4. c \in Columns /\ d \in Columns
  <2>1. \A i \in 2..3 : input[i][1] \in Columns
    <3>1. \A i \in 2..3 : i \in 1..3
      OBVIOUS
    <3> QED
      BY <1>2, <3>1 DEF SchemaDomains
  <2>2. 2 \in 2..3 /\ 3 \in 2..3
    OBVIOUS
  <2> QED
    BY <1>3, <2>1, <2>2
<1>5. \E e \in Columns : e \notin {c, d}
  BY <1>4 DEF SchemaDomains
<1>6. LET s == AddColumn(AddColumn(NewSchema(default), c, o), d, p)
      IN /\ IsFullyConflictFree(s) <=> \A cs \in SUBSET Columns : CanAutoMergeColumns(s, cs)
         /\ ConflictFreeColumns(s) = {e \in DOMAIN s.columns : CanAutoMergeColumns(s, {e})}
         /\ ConflictFreeColumns(s) \cup ConflictingColumns(s) = {c, d}
  BY <1>4, <1>5, SchemaNeedsAll
<1> QED
  BY <1>3, <1>6, Zenon DEF AutoMergeNeedsEveryColumn

\* So does that of names.
LEMMA FilesApart ==
  ASSUME NameDomains, ArgumentsTyped
  PROVE  BranchFilesApart
<1>1. SUFFICES ASSUME Given("names"), \A i \in 1..2 : ValidBranchName(input[i]) /\ ~Touching(input[i])
               PROVE  BranchFilesApart
  BY Zenon DEF BranchFilesApart
<1>2. \A i \in 1..2 : input[i] \in Domains["names"][i]
  BY <1>1, ArgumentsGiven DEF NameDomains
<1>3. PICK C : "_" \in C /\ "/" \in C /\ \A i \in 1..2 : Domains["names"][i] \subseteq Seq(C)
  BY Zenon DEF NameDomains
<1>4. ASSUME NEW i \in 1..2 PROVE ListedName(BranchPath(input[i])) = input[i]
  <2>1. input[i] \in Seq(C) /\ ValidBranchName(input[i]) /\ ~Touching(input[i])
    BY <1>1, <1>2, <1>3, Zenon
  <2> QED
    BY <1>3, <2>1, NamesListed, Zenon
<1>5. 1 \in 1..2 /\ 2 \in 1..2
  OBVIOUS
<1>6. /\ ListedName(BranchPath(input[1])) = input[1]
      /\ ListedName(BranchPath(input[2])) = input[2]
  BY <1>4, <1>5, Zenon
<1> QED
  BY <1>6, Zenon DEF BranchFilesApart

\* Branches stay apart and merge without a loss: for all heads, schemas and
\* names, the analyses of any kind.
THEOREM BranchesCorrect ==
  ASSUME BranchDomains, SchemaDomains, NameDomains
  PROVE  ArgumentsSpec => []BranchesSound
<1>1. ASSUME ArgumentsTyped PROVE BranchesSound
  <2>1. MergeLosesNoChange /\ MergeNeverRegresses
    BY <1>1, ChangesKept, Zenon
  <2>2. AutoMergeNeedsEveryColumn
    BY <1>1, ColumnsNeeded, Zenon
  <2>3. BranchFilesApart
    BY <1>1, FilesApart, Zenon
  <2> QED
    BY <2>1, <2>2, <2>3, AnalyzerSound, Zenon DEF BranchesSound
<1> QED
  BY <1>1, ArgumentsCorrect, PTL

-----------------------------------------------------------------------------
(* Sequences cut into pieces                                                *)

\* As many pieces as are needed.
LEMMA CeilingCovers ==
  ASSUME NEW N \in Nat, NEW n \in Nat \ {0}
  PROVE  /\ Ceiling(N, n) \in Nat
         /\ N <= Ceiling(N, n) * n
         /\ N # 0 => Ceiling(N, n) # 0 /\ (Ceiling(N, n) - 1) * n < N
         /\ N = 0 => Ceiling(N, n) = 0
<1>1. PICK C : C = (N + n - 1) \div n
  OBVIOUS
<1>2. PICK r : r = (N + n - 1) % n
  OBVIOUS
<1>3. C \in Int /\ r \in 0..(n - 1) /\ N + n - 1 = C * n + r
  BY <1>1, <1>2
<1>4. C \in Nat
  <2>1. C < 0 => C * n <= -n
    BY <1>3
  <2> QED
    BY <1>3, <2>1
<1>5. N <= C * n /\ (C - 1) * n < N
  BY <1>3
<1>6. N # 0 => C # 0
  BY <1>5
<1>7. N = 0 => C = 0
  BY <1>4, <1>5
<1> QED
  BY <1>1, <1>4, <1>5, <1>6, <1>7 DEF Ceiling

\* The number of the piece that each place is in.
LEMMA PlaceInPiece ==
  ASSUME NEW N \in Nat, NEW n \in Nat \ {0}, NEW j \in 1..N
  PROVE  \E i \in 1..Ceiling(N, n) : \E r \in 1..n : j = (i - 1) * n + r
<1>1. PICK i : i = Ceiling(j, n)
  OBVIOUS
<1>2. i \in Nat /\ i # 0 /\ j <= i * n /\ (i - 1) * n < j
  BY <1>1, CeilingCovers
<1>3. PICK C \in Nat : C = Ceiling(N, n) /\ N <= C * n
  BY CeilingCovers
<1>4. i <= C
  <2>1. ASSUME i > C PROVE FALSE
    <3>1. (i - 1) * n >= C * n
      <4>1. i - 1 - C \in Nat
        BY <1>2, <1>3, <2>1
      <4>2. (i - 1 - C) * n >= 0
        BY <4>1
      <4>3. (i - 1 - C) * n = (i - 1) * n - C * n
        BY <1>2, <1>3
      <4> QED
        BY <1>2, <1>3, <4>2, <4>3
    <3> QED
      BY <1>2, <1>3, <3>1
  <2> QED
    BY <1>2, <1>3, <2>1
<1>5. PICK b \in Int : b = (i - 1) * n
  BY <1>2
<1>6. i * n = b + n
  BY <1>2, <1>5
<1>7. j - b \in 1..n
  BY <1>2, <1>5, <1>6
<1> QED
  BY <1>2, <1>3, <1>4, <1>5, <1>7

\* What a piece holds: n elements from a place on, or those that are left.
PieceHolds(s, n, i, from, len) ==
  /\ from \in Nat /\ len \in 1..n /\ from = (i - 1) * n
  /\ len = IF from + n <= Len(s) THEN n ELSE Len(s) - from
  /\ Len(Piece(s, n, i)) = len
  /\ \A r \in 1..len : Piece(s, n, i)[r] = s[from + r]

\* A piece is a sequence, and a stretch of the one that was cut.
LEMMA PieceIs ==
  ASSUME NEW S, NEW s \in Seq(S), NEW n \in Nat \ {0}, NEW i \in 1..Ceiling(Len(s), n)
  PROVE  Piece(s, n, i) \in Seq(S) /\ \E from, len : PieceHolds(s, n, i, from, len)
<1>1. PICK N \in Nat, C \in Nat : N = Len(s) /\ C = Ceiling(N, n)
  BY CeilingCovers
<1>2. N # 0 /\ N <= C * n /\ (C - 1) * n < N
  <2>1. N <= C * n /\ (N # 0 => (C - 1) * n < N) /\ (N = 0 => C = 0)
    BY <1>1, CeilingCovers
  <2>2. C # 0
    BY <1>1
  <2> QED
    BY <2>1, <2>2
<1>3. PICK from : from = (i - 1) * n
  OBVIOUS
<1>4. i \in Nat /\ i # 0 /\ i <= C
  BY <1>1
<1>5. from \in Nat /\ i * n = from + n
  <2>1. i - 1 \in Nat
    BY <1>4
  <2> QED
    BY <1>3, <1>4, <2>1
<1>6. from < N
  <2>1. (i - 1) * n <= (C - 1) * n
    <3>1. C - i \in Nat
      BY <1>1, <1>4
    <3>2. (C - i) * n >= 0
      BY <3>1
    <3>3. (C - i) * n = (C - 1) * n - (i - 1) * n
      BY <1>1, <1>4
    <3> QED
      BY <1>1, <1>4, <3>2, <3>3
  <2> QED
    BY <1>1, <1>2, <1>3, <1>5, <2>1
<1>7. PICK len : len = IF from + n <= N THEN n ELSE N - from
  OBVIOUS
<1>8. len \in 1..n /\ from + len <= N
  BY <1>5, <1>6, <1>7
<1>9. PICK p : p = Piece(s, n, i)
  OBVIOUS
<1>10. p = SubSeq(s, from + 1, from + len)
  <2>1. p = SubSeq(s, from + 1, IF from + n <= N THEN from + n ELSE N)
    BY <1>1, <1>3, <1>5, <1>9 DEF Piece
  <2>2. (IF from + n <= N THEN from + n ELSE N) = from + len
    BY <1>5, <1>7
  <2> QED
    BY <2>1, <2>2
<1>11. p \in Seq(S) /\ Len(p) = len /\ \A r \in 1..len : p[r] = s[from + r]
  <2>1. PICK a \in Nat, b \in Nat : a = from + 1 /\ b = from + len /\ a <= b /\ b <= N /\ b - a + 1 = len
    BY <1>5, <1>8
  <2>2. p \in Seq(S) /\ Len(p) = b - a + 1 /\ \A r \in 1..(b - a + 1) : p[r] = s[a + r - 1]
    <3>1. p = SubSeq(s, a, b)
      BY <1>10, <2>1
    <3>2. s \in Seq(S) /\ a \in 1..Len(s) /\ b \in a..Len(s)
      BY <1>1, <1>5, <2>1
    <3> QED
      BY <3>1, <3>2
  <2>3. \A r \in 1..len : a + r - 1 = from + r
    BY <1>5, <1>8, <2>1
  <2> QED
    BY <2>1, <2>2, <2>3
<1>12. PieceHolds(s, n, i, from, len)
  BY <1>1, <1>3, <1>5, <1>7, <1>8, <1>9, <1>11 DEF PieceHolds
<1> QED
  BY <1>9, <1>11, <1>12

\* A sequence with the pieces of another is no longer and says the same.
LEMMA PiecesReach ==
  ASSUME NEW S, NEW s \in Seq(S), NEW t \in Seq(S), NEW n \in Nat \ {0},
         Ceiling(Len(s), n) = Ceiling(Len(t), n),
         \A i \in 1..Ceiling(Len(s), n) : Piece(s, n, i) = Piece(t, n, i),
         NEW j \in 1..Len(s)
  PROVE  j <= Len(t) /\ t[j] = s[j]
<1>1. PICK i \in 1..Ceiling(Len(s), n), r \in 1..n : j = (i - 1) * n + r
  <2>1. PICK N \in Nat : N = Len(s)
    OBVIOUS
  <2>2. j \in 1..N
    BY <2>1
  <2> QED
    BY <2>1, <2>2, PlaceInPiece
<1>2. PICK a, k : PieceHolds(s, n, i, a, k)
  BY PieceIs
<1>3. PICK b, l : PieceHolds(t, n, i, b, l)
  BY PieceIs
<1>4. PICK p : p = Piece(s, n, i) /\ p = Piece(t, n, i)
  OBVIOUS
<1>5. /\ a \in Nat /\ b = a /\ j = a + r /\ k = l /\ Len(t) \in Nat
      /\ k = IF a + n <= Len(s) THEN n ELSE Len(s) - a
      /\ l = IF b + n <= Len(t) THEN n ELSE Len(t) - b
  BY <1>1, <1>2, <1>3, <1>4 DEF PieceHolds
<1>6. \A x \in 1..k : p[x] = s[a + x]
  BY <1>2, <1>4 DEF PieceHolds
<1>7. \A x \in 1..l : p[x] = t[b + x]
  BY <1>3, <1>4 DEF PieceHolds
<1>8. r \in 1..k
  BY <1>5
<1>9. j <= Len(t)
  <2>1. PICK N \in Nat : N = Len(t) /\ l = IF a + n <= N THEN n ELSE N - a
    BY <1>5
  <2>2. a + l <= N
    <3>1. a \in Nat /\ n \in Nat
      BY <1>5
    <3>2. CASE a + n <= N
      BY <2>1, <3>1, <3>2
    <3>3. CASE ~(a + n <= N)
      BY <2>1, <3>1, <3>3
    <3> QED
      BY <3>2, <3>3
  <2>3. r <= l
    BY <1>5, <1>8
  <2> QED
    BY <1>5, <2>1, <2>2, <2>3
<1>10. t[j] = s[j]
  BY <1>5, <1>6, <1>7, <1>8
<1> QED
  BY <1>9, <1>10

\* Sequences of as many pieces, all the same, are the same.
LEMMA PiecesTell ==
  ASSUME NEW S, NEW s \in Seq(S), NEW t \in Seq(S), NEW n \in Nat \ {0},
         Ceiling(Len(s), n) = Ceiling(Len(t), n),
         \A i \in 1..Ceiling(Len(s), n) : Piece(s, n, i) = Piece(t, n, i)
  PROVE  s = t
<1>1. \A j \in 1..Len(s) : j <= Len(t) /\ t[j] = s[j]
  BY PiecesReach
<1>2. \A j \in 1..Len(t) : j <= Len(s)
  <2>1. \A i \in 1..Ceiling(Len(t), n) : Piece(t, n, i) = Piece(s, n, i)
    OBVIOUS
  <2> QED
    BY <2>1, PiecesReach
<1>3. Len(s) \in Nat /\ Len(t) \in Nat
  OBVIOUS
<1>4. Len(s) <= Len(t)
  BY <1>1, <1>3
<1>5. Len(t) <= Len(s)
  BY <1>2, <1>3
<1> QED
  BY <1>1, <1>3, <1>4, <1>5, SeqEqual

-----------------------------------------------------------------------------
(* Merkle trees: the levels above the leaves                                *)

IsList(s) == \E S : s \in Seq(S)

\* The level above another, the same where that is the root.
Above(s, b) ==
  IF Len(s) <= 1 THEN s ELSE [j \in DOMAIN ParentLevel(s, b) |-> ParentLevel(s, b)[j].hash]

\* Fewer pieces than elements.
LEMMA CeilingShrinks ==
  ASSUME NEW n \in Nat, n > 1, NEW b \in Nat \ {0, 1}
  PROVE  Ceiling(n, b) \in 1..(n - 1)
<1>1. PICK C : C = Ceiling(n, b)
  OBVIOUS
<1>2. C \in Nat /\ C # 0 /\ (C - 1) * b < n
  BY <1>1, CeilingCovers
<1>3. ASSUME C >= n PROVE FALSE
  <2>1. PICK k \in Nat : k = C - 1
    BY <1>2
  <2>2. k * b >= k * 2
    <3>1. PICK d \in Nat : d = b - 2
      OBVIOUS
    <3>2. k * d >= 0
      BY <2>1, <3>1
    <3>3. k * b = k * d + k * 2
      BY <2>1, <3>1
    <3> QED
      BY <2>1, <3>1, <3>2, <3>3
  <2>3. k * b < n
    BY <1>2, <2>1
  <2> QED
    BY <1>2, <1>3, <2>1, <2>2, <2>3
<1> QED
  BY <1>1, <1>2, <1>3

\* What is above a level that is not the root: the hashes of its pieces.
HashesPieces(up, s, b) ==
  /\ Len(up) = Ceiling(Len(s), b) /\ Len(up) \in 1..(Len(s) - 1)
  /\ \A j \in 1..Len(up) : up[j] = HashNodes(Piece(s, b, j))

\* The level above: the hash and the children of every node.
LEMMA ParentsAre ==
  ASSUME NEW s, IsList(s), NEW b \in Nat \ {0}
  PROVE  /\ DOMAIN ParentLevel(s, b) = 1..Ceiling(Len(s), b)
         /\ Len(ParentLevel(s, b)) = Ceiling(Len(s), b)
         /\ \A i \in 1..Ceiling(Len(s), b) :
              /\ ParentLevel(s, b)[i].hash = HashNodes(Piece(s, b, i))
              /\ ParentLevel(s, b)[i].children = Piece(s, b, i)
<1>1. PICK S : s \in Seq(S)
  BY DEF IsList
<1>2. PICK C \in Nat : C = Ceiling(Len(s), b)
  BY <1>1, CeilingCovers
<1>3. PICK p : p = ParentLevel(s, b)
  OBVIOUS
<1>4. p = [i \in 1..C |-> MerkleNode(HashNodes(Piece(s, b, i)), Piece(s, b, i), i - 1)]
  BY <1>2, <1>3 DEF ParentLevel
<1>5. DOMAIN p = 1..C /\ Len(p) = C
  BY <1>4
<1>6. \A i \in 1..C : p[i].hash = HashNodes(Piece(s, b, i)) /\ p[i].children = Piece(s, b, i)
  BY <1>4 DEF MerkleNode
<1> QED
  BY <1>2, <1>3, <1>5, <1>6

\* Each hash above is that of a piece of the level below.
LEMMA AboveIs ==
  ASSUME NEW s, IsList(s), Len(s) > 1, NEW b \in Nat \ {0, 1}
  PROVE  IsList(Above(s, b)) /\ HashesPieces(Above(s, b), s, b)
<1>1. PICK S : s \in Seq(S)
  BY DEF IsList
<1>2. PICK n \in Nat, C \in Nat : n = Len(s) /\ C = Ceiling(n, b) /\ n > 1
  BY <1>1, CeilingCovers
<1>3. C \in 1..(n - 1)
  BY <1>2, CeilingShrinks
<1>4. PICK p : p = ParentLevel(s, b)
  OBVIOUS
<1>5. DOMAIN p = 1..C /\ \A i \in 1..C : p[i].hash = HashNodes(Piece(s, b, i))
  <2>1. b \in Nat \ {0}
    OBVIOUS
  <2> QED
    BY <1>2, <1>4, <2>1, ParentsAre
<1>6. PICK up : up = Above(s, b)
  OBVIOUS
<1>7. up = [j \in 1..C |-> p[j].hash]
  BY <1>2, <1>4, <1>5, <1>6 DEF Above
<1>8. PICK T : T = {p[j].hash : j \in 1..C}
  OBVIOUS
<1>9. up \in Seq(T) /\ Len(up) = C
  BY <1>7, <1>8
<1>10. \A j \in 1..C : up[j] = HashNodes(Piece(s, b, j))
  BY <1>5, <1>7
<1> QED
  BY <1>2, <1>3, <1>6, <1>9, <1>10 DEF IsList, HashesPieces

\* The levels, one after the other.
Rising(level, leaves, b) ==
  level = [i \in 0..Len(leaves) |-> IF i = 0 THEN leaves ELSE Above(level[i - 1], b)]

\* There are levels, one above the other, as many as there are leaves.
LEMMA LevelsRise ==
  ASSUME NEW leaves, NEW N \in Nat, N = Len(leaves), NEW b
  PROVE  \E level : Rising(level, leaves, b)
<1> DEFINE Rises(k, g) == g[0] = leaves /\ \A i \in 1..k : g[i] = Above(g[i - 1], b)
           G == {k \in 0..N : \E g : g = [i \in 0..k |-> g[i]] /\ Rises(k, g)}
<1>1. 0 \in G
  <2>1. PICK g : g = [i \in 0..0 |-> leaves]
    OBVIOUS
  <2>2. g = [i \in 0..0 |-> g[i]] /\ Rises(0, g)
    BY <2>1
  <2> QED
    BY <2>2
<1>2. ASSUME NEW k \in 1..N, k - 1 \in G PROVE k \in G
  <2>1. PICK g : g = [i \in 0..(k - 1) |-> g[i]] /\ Rises(k - 1, g)
    BY <1>2
  <2>2. PICK h : h = [i \in 0..k |-> IF i = k THEN Above(g[k - 1], b) ELSE g[i]]
    OBVIOUS
  <2>3. \A i \in 0..(k - 1) : h[i] = g[i]
    BY <2>2
  <2>4. h[0] = leaves
    BY <2>1, <2>3
  <2>5. ASSUME NEW i \in 1..k PROVE h[i] = Above(h[i - 1], b)
    <3>1. h[i - 1] = g[i - 1]
      BY <2>3
    <3>2. CASE i = k
      BY <2>2, <3>1, <3>2
    <3>3. CASE i # k
      <4>1. i \in 1..(k - 1)
        BY <3>3
      <4>2. g[i] = Above(g[i - 1], b) /\ h[i] = g[i]
        BY <2>1, <2>3, <4>1
      <4> QED
        BY <3>1, <4>2
    <3> QED
      BY <3>2, <3>3
  <2>6. h = [i \in 0..k |-> h[i]]
    BY <2>2
  <2>7. \E x : x = [i \in 0..k |-> x[i]] /\ Rises(k, x)
    BY <2>4, <2>5, <2>6
  <2>8. k \in 0..N
    OBVIOUS
  <2> QED
    BY <2>7, <2>8, Zenon
<1>3. N \in G
  <2> HIDE DEF G
  <2>1. \A k \in 1..N : k - 1 \in G => k \in G
    BY <1>2
  <2>2. 0..N \subseteq G
    BY <1>1, <2>1, NaturalSteps
  <2> QED
    BY <2>2
<1>4. PICK g : g = [i \in 0..N |-> g[i]] /\ Rises(N, g)
  BY <1>3
<1>5. ASSUME NEW i \in 0..N PROVE g[i] = IF i = 0 THEN leaves ELSE Above(g[i - 1], b)
  <2>1. g[0] = leaves /\ \A j \in 1..N : g[j] = Above(g[j - 1], b)
    BY <1>4
  <2>2. i # 0 => i \in 1..N
    OBVIOUS
  <2> QED
    BY <2>1, <2>2
<1>6. g = [i \in 0..N |-> IF i = 0 THEN leaves ELSE Above(g[i - 1], b)]
  BY <1>4, <1>5
<1> QED
  BY <1>6 DEF Rising

\* A tree over some leaves: levels up to one of a single hash, its root.
IsTower(leaves, b, level, h) ==
  /\ h \in Nat /\ level[0] = leaves
  /\ \A i \in 0..h : IsList(level[i])
  /\ \A i \in 1..h : Len(level[i - 1]) > 1 /\ HashesPieces(level[i], level[i - 1], b)
  /\ Len(level[h]) = 1

\* They shrink until one hash is left.
LEMMA LevelsShrink ==
  ASSUME NEW leaves, IsList(leaves), NEW N \in Nat \ {0}, N = Len(leaves), NEW b \in Nat \ {0, 1},
         NEW level, Rising(level, leaves, b)
  PROVE  /\ level[0] = leaves
         /\ \A i \in 0..N : IsList(level[i]) /\ Len(level[i]) \in Nat \ {0} /\ (Len(level[i]) = 1 \/ Len(level[i]) <= N - i)
         /\ \A i \in 1..N : Len(level[i - 1]) > 1 => HashesPieces(level[i], level[i - 1], b)
<1>1. level[0] = leaves /\ \A i \in 1..N : level[i] = Above(level[i - 1], b)
  BY DEF Rising
<1> DEFINE G == {i \in 0..N : /\ IsList(level[i]) /\ Len(level[i]) \in Nat \ {0}
                              /\ Len(level[i]) = 1 \/ Len(level[i]) <= N - i}
<1>2. 0 \in G
  BY <1>1
<1>3. ASSUME NEW i \in 1..N, IsList(level[i - 1]), Len(level[i - 1]) > 1
      PROVE  IsList(level[i]) /\ HashesPieces(level[i], level[i - 1], b)
  BY <1>1, <1>3, AboveIs
<1>4. ASSUME NEW i \in 1..N, i - 1 \in G PROVE i \in G
  <2>1. PICK n \in Nat \ {0} : n = Len(level[i - 1]) /\ (n = 1 \/ n <= N - (i - 1))
    BY <1>4
  <2>4. IsList(level[i - 1]) /\ level[i] = Above(level[i - 1], b) /\ i \in 0..N
    BY <1>1, <1>4
  <2>2. CASE n = 1
    <3>1. Len(level[i - 1]) <= 1
      BY <2>1, <2>2
    <3>2. level[i] = level[i - 1]
      BY <2>4, <3>1, Zenon DEF Above
    <3>3. IsList(level[i]) /\ Len(level[i]) = 1
      BY <2>1, <2>2, <2>4, <3>2
    <3>4. Len(level[i]) \in Nat \ {0}
      BY <3>3
    <3> QED
      BY <2>4, <3>3, <3>4
  <2>3. CASE n # 1
    <3>0. n \in Nat /\ n # 0 /\ n # 1
      BY <2>3
    <3>6. n > 1
      BY <3>0
    <3>1. Len(level[i - 1]) > 1
      BY <2>1, <3>6
    <3>2. IsList(level[i]) /\ HashesPieces(level[i], level[i - 1], b)
      BY <1>3, <2>4, <3>1
    <3>3. PICK l : l = Len(level[i])
      OBVIOUS
    <3>4. l \in 1..(n - 1)
      BY <2>1, <3>2, <3>3 DEF HashesPieces
    <3>5. l \in Nat \ {0} /\ l <= N - i
      BY <2>1, <2>3, <3>4
    <3> QED
      BY <2>4, <3>2, <3>3, <3>5
  <2> QED
    BY <2>2, <2>3
<1>5. 0..N \subseteq G
  <2> HIDE DEF G
  <2>1. \A i \in 1..N : i - 1 \in G => i \in G
    BY <1>4
  <2> QED
    BY <1>2, <2>1, NaturalSteps
<1>6. \A i \in 0..N : i \in G
  BY <1>5
<1>7. \A i \in 1..N : Len(level[i - 1]) > 1 => HashesPieces(level[i], level[i - 1], b)
  <2>1. ASSUME NEW i \in 1..N, Len(level[i - 1]) > 1 PROVE HashesPieces(level[i], level[i - 1], b)
    <3>1. i - 1 \in 0..N
      OBVIOUS
    <3>2. IsList(level[i - 1])
      BY <1>6, <3>1
    <3> QED
      BY <1>3, <2>1, <3>2
  <2> QED
    BY <2>1
<1> QED
  BY <1>1, <1>6, <1>7

\* The first level, from the leaves on, that is a single hash.
FirstSingle(level, N, h) ==
  h \in 0..N /\ Len(level[h]) = 1 /\ \A i \in 0..(h - 1) : Len(level[i]) > 1

\* The levels that the code builds are those up to the first single hash.
LEMMA TreesRise ==
  ASSUME NEW leaves, IsList(leaves), NEW N \in Nat \ {0}, N = Len(leaves), NEW b \in Nat \ {0, 1}
  PROVE  \E level, h : /\ IsTower(leaves, b, level, h)
                       /\ Levels(leaves, b) = [root |-> level[h][1],
                                               nodes |-> [i \in 1..h |-> ParentLevel(level[i - 1], b)]]
<1> DEFINE level[i \in 0..Len(leaves)] ==
             IF i = 0 THEN leaves
             ELSE IF Len(level[i - 1]) <= 1 THEN level[i - 1]
                  ELSE [j \in DOMAIN ParentLevel(level[i - 1], b) |->
                          ParentLevel(level[i - 1], b)[j].hash]
           height == CHOOSE h \in 0..Len(leaves) :
                       Len(level[h]) = 1 /\ \A i \in 0..(h - 1) : Len(level[i]) > 1
<1>1. Levels(leaves, b) = [root |-> level[height][1],
                           nodes |-> [i \in 1..height |-> ParentLevel(level[i - 1], b)]]
  BY Zenon DEF Levels
<1>2. Rising(level, leaves, b)
  <2>1. PICK g : Rising(g, leaves, b)
    BY LevelsRise
  <2> QED
    BY <2>1, Zenon DEF Rising, Above
<1> HIDE DEF level
<1>3. /\ level[0] = leaves
      /\ \A i \in 0..N : IsList(level[i]) /\ Len(level[i]) \in Nat \ {0} /\ (Len(level[i]) = 1 \/ Len(level[i]) <= N - i)
      /\ \A i \in 1..N : Len(level[i - 1]) > 1 => HashesPieces(level[i], level[i - 1], b)
  BY <1>2, LevelsShrink
<1>4. \E h : FirstSingle(level, N, h)
  <2>1. PICK A : A = {i \in 0..N : Len(level[i]) = 1}
    OBVIOUS
  <2>2. N \in A
    <3>1. N \in 0..N /\ ~(Len(level[N]) <= N - N /\ Len(level[N]) \in Nat \ {0})
      OBVIOUS
    <3> QED
      BY <1>3, <2>1, <3>1
  <2>3. PICK h \in A : \A m \in A : h <= m
    <3>1. A \subseteq Nat /\ A # {}
      BY <2>1, <2>2
    <3> QED
      BY <3>1, LeastNumber
  <2>4. \A i \in 0..(h - 1) : Len(level[i]) > 1
    <3>1. ASSUME NEW i \in 0..(h - 1) PROVE Len(level[i]) > 1
      <4>1. i \in 0..N /\ ~(h <= i)
        BY <2>1
      <4>2. i \notin A
        BY <2>3, <4>1
      <4>3. Len(level[i]) # 1
        BY <2>1, <4>1, <4>2
      <4>4. Len(level[i]) \in Nat \ {0}
        BY <1>3, <4>1
      <4>5. PICK l : l = Len(level[i])
        OBVIOUS
      <4>6. l \in Nat /\ l # 0 /\ l # 1
        BY <4>3, <4>4, <4>5
      <4>7. l > 1
        BY <4>6
      <4> QED
        BY <4>5, <4>7
    <3> QED
      BY <3>1
  <2> QED
    BY <2>1, <2>4 DEF FirstSingle
<1>5. FirstSingle(level, N, height)
  <2>1. \E h \in 0..Len(leaves) : Len(level[h]) = 1 /\ \A i \in 0..(h - 1) : Len(level[i]) > 1
    BY <1>4 DEF FirstSingle
  <2>2. /\ height \in 0..Len(leaves)
        /\ Len(level[height]) = 1 /\ \A i \in 0..(height - 1) : Len(level[i]) > 1
    BY <2>1, Zenon
  <2> QED
    BY <2>2, Zenon DEF FirstSingle
<1>6. PICK h : h = height
  OBVIOUS
<1> HIDE DEF height
<1>7. IsTower(leaves, b, level, h)
  <2>1. h \in 0..N /\ Len(level[h]) = 1 /\ \A i \in 0..(h - 1) : Len(level[i]) > 1
    BY <1>5, <1>6 DEF FirstSingle
  <2>2. \A i \in 0..h : IsList(level[i])
    BY <1>3, <2>1
  <2>3. ASSUME NEW i \in 1..h PROVE Len(level[i - 1]) > 1 /\ HashesPieces(level[i], level[i - 1], b)
    <3>1. i - 1 \in 0..(h - 1) /\ i \in 1..N
      BY <2>1
    <3>2. Len(level[i - 1]) > 1
      BY <2>1, <3>1
    <3> QED
      BY <1>3, <3>1, <3>2
  <2> QED
    BY <1>3, <2>1, <2>2, <2>3 DEF IsTower
<1> QED
  BY <1>1, <1>6, <1>7, Zenon

\* Hashes tell what was hashed.
LEMMA HashesTell ==
  /\ \A x, y : HashNodes(x) = HashNodes(y) => x = y
  /\ \A x, y : HashData(x) = HashData(y) => x = y
  /\ \A x, y : HashNodes(x) = HashData(y) => x = y
BY DEF HashNodes, HashData

\* Below one level there is only one.
LEMMA LevelTellsBelow ==
  ASSUME NEW s, IsList(s), NEW t, IsList(t), NEW b \in Nat \ {0, 1}, NEW up,
         HashesPieces(up, s, b), HashesPieces(up, t, b)
  PROVE  s = t
<1>1. PICK A, B : s \in Seq(A) /\ t \in Seq(B)
  BY DEF IsList
<1>2. PICK S : S = A \cup B
  OBVIOUS
<1>3. s \in Seq(S) /\ t \in Seq(S)
  <2>1. A \subseteq S /\ B \subseteq S
    BY <1>2
  <2>2. \A i \in 1..Len(s) : s[i] \in S
    BY <1>1, <2>1
  <2>3. \A i \in 1..Len(t) : t[i] \in S
    BY <1>1, <2>1
  <2> QED
    BY <1>1, <2>2, <2>3
<1>4. Len(up) = Ceiling(Len(s), b) /\ Len(up) = Ceiling(Len(t), b)
  BY DEF HashesPieces
<1>5. ASSUME NEW i \in 1..Ceiling(Len(s), b) PROVE Piece(s, b, i) = Piece(t, b, i)
  <2>1. up[i] = HashNodes(Piece(s, b, i)) /\ up[i] = HashNodes(Piece(t, b, i))
    BY <1>4 DEF HashesPieces
  <2> QED
    BY <2>1, HashesTell
<1>6. b \in Nat \ {0}
  OBVIOUS
<1> QED
  BY <1>3, <1>4, <1>5, <1>6, PiecesTell

\* A list of hashes of data.
AreDataHashes(s) == IsList(s) /\ Len(s) # 0 /\ \A i \in 1..Len(s) : \E x : s[i] = HashData(x)

\* Below equal roots the levels are equal, from the root down; where there are
\* as many the leaves are, and where there are not those of the lower tree are
\* a level of the higher one.
LEMMA RootsMeet ==
  ASSUME NEW p, NEW q, AreDataHashes(p), AreDataHashes(q), NEW b \in Nat \ {0, 1},
         NEW l, NEW h, IsTower(p, b, l, h), NEW m, NEW k, IsTower(q, b, m, k), l[h][1] = m[k][1],
         h <= k
  PROVE  \/ h = k /\ p = q
         \/ h # k /\ \E j \in 1..k : HashesPieces(p, m[j - 1], b)
<1>1. /\ h \in Nat /\ l[0] = p /\ Len(l[h]) = 1
      /\ \A i \in 0..h : IsList(l[i])
      /\ \A i \in 1..h : HashesPieces(l[i], l[i - 1], b)
  BY DEF IsTower
<1>2. /\ k \in Nat /\ m[0] = q /\ Len(m[k]) = 1
      /\ \A i \in 0..k : IsList(m[i])
      /\ \A i \in 1..k : HashesPieces(m[i], m[i - 1], b)
  BY DEF IsTower
<1> DEFINE G == {d \in 0..h : l[h - d] = m[k - d]}
<1>3. 0 \in G
  <2>1. PICK s, t : s = l[h] /\ t = m[k]
    OBVIOUS
  <2>2. IsList(s) /\ IsList(t) /\ Len(s) = 1 /\ Len(t) = 1 /\ s[1] = t[1]
    BY <1>1, <1>2, <2>1
  <2>3. PICK A, B : s \in Seq(A) /\ t \in Seq(B)
    BY <2>2 DEF IsList
  <2>4. \A i \in 1..Len(s) : s[i] = t[i]
    BY <2>2
  <2>5. s = t
    BY <2>2, <2>3, <2>4, SeqEqual
  <2>6. h - 0 = h /\ k - 0 = k /\ 0 \in 0..h
    BY <1>1, <1>2
  <2>7. l[h - 0] = m[k - 0]
    BY <2>1, <2>5, <2>6, Zenon
  <2> QED
    BY <2>6, <2>7, Zenon
<1>4. ASSUME NEW d \in 1..h, d - 1 \in G PROVE d \in G
  <2>1. PICK i \in 1..h, j \in 1..k : i = h - (d - 1) /\ j = k - (d - 1) /\ i - 1 = h - d /\ j - 1 = k - d
    <3>1. h - (d - 1) \in 1..h /\ k - (d - 1) \in 1..k
      BY <1>1, <1>2
    <3>2. h - (d - 1) - 1 = h - d /\ k - (d - 1) - 1 = k - d
      BY <1>1, <1>2
    <3> QED
      BY <3>1, <3>2, Zenon
  <2>2. l[i] = m[j]
    BY <1>4, <2>1
  <2>3. i - 1 \in 0..h /\ j - 1 \in 0..k
    BY <1>1, <1>2
  <2>4. IsList(l[i - 1]) /\ IsList(m[j - 1])
    BY <1>1, <1>2, <2>3
  <2>5. HashesPieces(l[i], l[i - 1], b) /\ HashesPieces(l[i], m[j - 1], b)
    BY <1>1, <1>2, <2>2
  <2>6. l[i - 1] = m[j - 1]
    BY <2>4, <2>5, LevelTellsBelow
  <2> QED
    BY <2>1, <2>6
<1>5. l[0] = m[k - h]
  <2> HIDE DEF G
  <2>1. \A d \in 1..h : d - 1 \in G => d \in G
    BY <1>4
  <2>2. 0..h \subseteq G
    BY <1>1, <1>3, <2>1, NaturalSteps
  <2>3. h \in G /\ h - h = 0
    BY <1>1, <2>2
  <2> QED
    BY <2>3 DEF G
<1> HIDE DEF G
<1>6. CASE h = k
  <2>1. k - h = 0
    BY <1>1, <1>2, <1>6
  <2>2. l[0] = m[0]
    BY <1>5, <2>1, Zenon
  <2>3. p = q
    BY <1>1, <1>2, <2>2, Zenon
  <2> QED
    BY <1>6, <2>3, Zenon
<1>7. CASE h # k
  <2>1. PICK j \in 1..k : j = k - h
    BY <1>1, <1>2, <1>7
  <2>2. HashesPieces(p, m[j - 1], b)
    BY <1>1, <1>2, <1>5, <2>1
  <2> QED
    BY <1>7, <2>2
<1> QED
  BY <1>6, <1>7

\* The chunks of some data.
ChunksOf(data, size, chunks, C) ==
  /\ C \in Nat \ {0} /\ C = Ceiling(Len(data), size) /\ DOMAIN chunks = 1..C /\ Len(chunks) = C
  /\ \A i \in 1..C : /\ chunks[i].hash = HashData(Piece(data, size, i))
                     /\ chunks[i].start = (i - 1) * size
                     /\ chunks[i].end = (i - 1) * size + Len(Piece(data, size, i))
  /\ DOMAIN Hashes(chunks) = 1..C /\ Len(Hashes(chunks)) = C /\ AreDataHashes(Hashes(chunks))
  /\ \A i \in 1..C : Hashes(chunks)[i] = HashData(Piece(data, size, i))

\* What the chunks of data are.
LEMMA ChunksAre ==
  ASSUME NEW S, NEW data \in Seq(S), data # <<>>, NEW size \in Nat \ {0}
  PROVE  ChunksOf(data, size, SplitIntoChunks(data, size), Ceiling(Len(data), size))
<1>1. PICK N \in Nat, C \in Nat : N = Len(data) /\ N # 0 /\ C = Ceiling(N, size)
  BY CeilingCovers, EmptySeq
<1>2. C # 0
  BY <1>1, CeilingCovers
<1>3. PICK chunks : chunks = SplitIntoChunks(data, size)
  OBVIOUS
<1>4. chunks = [i \in 1..C |->
                  DataChunk(HashData(Piece(data, size, i)), (i - 1) * size,
                            (i - 1) * size + Len(Piece(data, size, i)), i - 1)]
  BY <1>1, <1>3, Zenon DEF SplitIntoChunks
<1>5. DOMAIN chunks = 1..C /\ Len(chunks) = C
  BY <1>4
<1>6. ASSUME NEW i \in 1..C
      PROVE  /\ chunks[i].hash = HashData(Piece(data, size, i))
             /\ chunks[i].start = (i - 1) * size
             /\ chunks[i].end = (i - 1) * size + Len(Piece(data, size, i))
  <2>1. PICK x, y, z : /\ x = HashData(Piece(data, size, i)) /\ y = (i - 1) * size
                       /\ z = (i - 1) * size + Len(Piece(data, size, i))
    OBVIOUS
  <2>2. chunks[i] = DataChunk(x, y, z, i - 1)
    BY <1>4, <2>1
  <2>3. chunks[i].hash = x /\ chunks[i].start = y /\ chunks[i].end = z
    BY <2>2 DEF DataChunk
  <2> QED
    BY <2>1, <2>3
<1>7. PICK hs : hs = Hashes(chunks)
  OBVIOUS
<1>8. hs = [i \in 1..C |-> chunks[i].hash]
  BY <1>5, <1>7 DEF Hashes
<1>9. \A i \in 1..C : hs[i] = HashData(Piece(data, size, i))
  BY <1>6, <1>8
<1>10. DOMAIN hs = 1..C /\ Len(hs) = C /\ IsList(hs)
  <2>1. PICK T : T = {chunks[i].hash : i \in 1..C}
    OBVIOUS
  <2>2. hs \in Seq(T) /\ Len(hs) = C /\ DOMAIN hs = 1..C
    BY <1>8, <2>1
  <2> QED
    BY <2>2 DEF IsList
<1>11. AreDataHashes(hs)
  BY <1>2, <1>9, <1>10 DEF AreDataHashes
<1> QED
  BY <1>1, <1>2, <1>3, <1>5, <1>6, <1>7, <1>9, <1>10, <1>11 DEF ChunksOf

\* The tree of some data.
TreeOf(tree, data, size, b, level, h) ==
  /\ ChunksOf(data, size, tree.chunks, Ceiling(Len(data), size))
  /\ IsTower(Hashes(tree.chunks), b, level, h)
  /\ tree.root = level[h][1] /\ tree.nodes = [i \in 1..h |-> ParentLevel(level[i - 1], b)]
  /\ tree.total = Len(data)

\* What the tree of data is.
LEMMA TreesAre ==
  ASSUME NEW S, NEW data \in Seq(S), data # <<>>, NEW size \in Nat \ {0}, NEW b \in Nat \ {0, 1}
  PROVE  \E level, h : TreeOf(BuildTree(data, size, b), data, size, b, level, h)
<1>1. PICK chunks, C : chunks = SplitIntoChunks(data, size) /\ C = Ceiling(Len(data), size)
  OBVIOUS
<1>2. ChunksOf(data, size, chunks, C)
  BY <1>1, ChunksAre
<1>3. PICK hs : hs = Hashes(chunks)
  OBVIOUS
<1>4. IsList(hs) /\ C \in Nat \ {0} /\ C = Len(hs)
  BY <1>2, <1>3 DEF ChunksOf, AreDataHashes
<1>5. PICK level, h : /\ IsTower(hs, b, level, h)
                      /\ Levels(hs, b) = [root |-> level[h][1],
                                          nodes |-> [i \in 1..h |-> ParentLevel(level[i - 1], b)]]
  BY <1>4, TreesRise
<1>6. PICK r, ns : r = level[h][1] /\ ns = [i \in 1..h |-> ParentLevel(level[i - 1], b)]
  OBVIOUS
<1>7. PICK tree : tree = BuildTree(data, size, b)
  OBVIOUS
<1>8. tree = [root |-> Levels(hs, b).root, chunks |-> chunks, nodes |-> Levels(hs, b).nodes, total |-> Len(data)]
  BY <1>1, <1>3, <1>7, Zenon DEF BuildTree
<1>9. Levels(hs, b) = [root |-> r, nodes |-> ns]
  BY <1>5, <1>6, Zenon
<1>10. tree.root = r /\ tree.chunks = chunks /\ tree.nodes = ns /\ tree.total = Len(data)
  BY <1>8, <1>9
<1>11. TreeOf(tree, data, size, b, level, h)
  BY <1>1, <1>2, <1>3, <1>5, <1>6, <1>10, Zenon DEF TreeOf
<1> QED
  BY <1>7, <1>11, Zenon

\* The levels above the leaves are what they say they are.
LevelsVerify(tree) ==
  /\ \A l \in DOMAIN tree.nodes : \A i \in DOMAIN tree.nodes[l] :
       HashOf(tree.nodes[l][i]) = tree.nodes[l][i].hash
  /\ LET top == IF tree.nodes = <<>> THEN Hashes(tree.chunks)
                ELSE [i \in DOMAIN Last(tree.nodes) |-> Last(tree.nodes)[i].hash]
     IN top = <<tree.root>>

\* A list of one is that one.
LEMMA SingleList ==
  ASSUME NEW s, IsList(s), Len(s) = 1, NEW x, s[1] = x
  PROVE  s = <<x>>
<1>1. PICK S : s \in Seq(S)
  BY DEF IsList
<1>2. x \in S
  BY <1>1
<1>3. PICK t : t = <<x>>
  OBVIOUS
<1>4. t \in Seq(S) /\ Len(t) = 1 /\ t[1] = x
  BY <1>2, <1>3
<1>5. \A i \in 1..Len(s) : s[i] = t[i]
  BY <1>4
<1>6. s = t
  BY <1>1, <1>4, <1>5, SeqEqual
<1> QED
  BY <1>3, <1>6

\* A tree that was built verifies.
LEMMA TreeStands ==
  ASSUME NEW tree, NEW data, NEW size, NEW b \in Nat \ {0, 1}, NEW level, NEW h,
         TreeOf(tree, data, size, b, level, h)
  PROVE  LevelsVerify(tree)
<1>1. /\ h \in Nat /\ level[0] = Hashes(tree.chunks) /\ Len(level[h]) = 1
      /\ \A i \in 0..h : IsList(level[i])
      /\ \A i \in 1..h : Len(level[i - 1]) > 1 /\ HashesPieces(level[i], level[i - 1], b)
  BY Zenon DEF TreeOf, IsTower
<1>2. PICK nodes : nodes = tree.nodes
  OBVIOUS
<1>3. nodes = [i \in 1..h |-> ParentLevel(level[i - 1], b)] /\ tree.root = level[h][1]
  BY <1>2, Zenon DEF TreeOf
<1>4. ASSUME NEW l \in 1..h, NEW i \in DOMAIN nodes[l]
      PROVE  HashOf(nodes[l][i]) = nodes[l][i].hash
  <2>1. l - 1 \in 0..h
    BY <1>1
  <2>2. IsList(level[l - 1]) /\ nodes[l] = ParentLevel(level[l - 1], b) /\ b \in Nat \ {0}
    BY <1>1, <1>3, <2>1
  <2>3. /\ nodes[l][i].hash = HashNodes(Piece(level[l - 1], b, i))
        /\ nodes[l][i].children = Piece(level[l - 1], b, i)
    BY <1>4, <2>2, ParentsAre
  <2> QED
    BY <2>3, Zenon DEF HashOf
<1>5. level[h] = <<tree.root>>
  <2>1. h \in 0..h
    BY <1>1
  <2> QED
    BY <1>1, <1>3, <2>1, SingleList
<1>6. CASE h = 0
  <2>1. nodes = <<>>
    BY <1>3, <1>6
  <2>2. DOMAIN nodes = {}
    BY <1>3, <1>6
  <2> QED
    BY <1>1, <1>2, <1>5, <1>6, <2>1, <2>2, Zenon DEF LevelsVerify
<1>7. CASE h # 0
  <2>1. PICK P : P = ParentLevel(level[h - 1], b)
    OBVIOUS
  <2>2. h \in 1..h /\ h - 1 \in 0..h /\ b \in Nat \ {0}
    BY <1>1, <1>7
  <2>3. Len(nodes) = h /\ DOMAIN nodes = 1..h /\ nodes # <<>> /\ nodes[h] = P
    <3>1. Len(nodes) = h /\ DOMAIN nodes = 1..h /\ nodes[h] = P
      BY <1>1, <1>3, <2>1, <2>2
    <3>2. nodes # <<>>
      BY <2>2, <3>1
    <3> QED
      BY <3>1, <3>2
  <2>4. Last(nodes) = P
    BY <2>3, Zenon DEF Last
  <2>5. PICK s, up : s = level[h - 1] /\ up = level[h]
    OBVIOUS
  <2>6. IsList(s) /\ IsList(up) /\ HashesPieces(up, s, b)
    BY <1>1, <2>2, <2>5
  <2>7. /\ DOMAIN P = 1..Ceiling(Len(s), b)
        /\ \A i \in 1..Ceiling(Len(s), b) : P[i].hash = HashNodes(Piece(s, b, i))
    BY <2>1, <2>2, <2>5, <2>6, ParentsAre
  <2>8. /\ Len(up) = Ceiling(Len(s), b) /\ \A j \in 1..Len(up) : up[j] = HashNodes(Piece(s, b, j))
    BY <2>6 DEF HashesPieces
  <2>9. [i \in DOMAIN P |-> P[i].hash] = up
    <3>1. PICK T : up \in Seq(T)
      BY <2>6 DEF IsList
    <3>2. up = [j \in 1..Len(up) |-> up[j]]
      BY <3>1
    <3> QED
      BY <2>7, <2>8, <3>2
  <2> QED
    BY <1>2, <1>4, <1>5, <2>3, <2>4, <2>5, <2>9, Zenon DEF LevelsVerify
<1> QED
  BY <1>6, <1>7

\* A store has the hashes of its chunks and under each the data.
LEMMA StoreHas ==
  ASSUME NEW data, NEW size
  PROVE  /\ DOMAIN StoreOf(data, size) = {HashData(Piece(data, size, i)) : i \in 1..Ceiling(Len(data), size)}
         /\ \A x \in DOMAIN StoreOf(data, size) : HashData(StoreOf(data, size)[x]) = x
<1>1. PICK pieces : pieces = {Piece(data, size, i) : i \in 1..Ceiling(Len(data), size)}
  OBVIOUS
<1>2. PICK store : store = StoreOf(data, size)
  OBVIOUS
<1>3. store = [x \in {HashData(p) : p \in pieces} |-> CHOOSE p \in pieces : HashData(p) = x]
  BY <1>1, <1>2, Zenon DEF StoreOf
<1>4. DOMAIN store = {HashData(p) : p \in pieces}
  BY <1>3
<1>5. DOMAIN store = {HashData(Piece(data, size, i)) : i \in 1..Ceiling(Len(data), size)}
  BY <1>1, <1>4
<1>6. ASSUME NEW x \in DOMAIN store PROVE HashData(store[x]) = x
  <2>1. PICK p \in pieces : HashData(p) = x
    BY <1>4
  <2>2. store[x] = CHOOSE q \in pieces : HashData(q) = x
    BY <1>3, <1>4
  <2> QED
    BY <2>1, <2>2, Zenon
<1> QED
  BY <1>2, <1>5, <1>6

\* Elements that do not repeat are as many as their places.
LEMMA AsManyAsPlaces ==
  ASSUME NEW N \in Nat, NEW f, \A i, j \in 1..N : f[i] = f[j] => i = j,
         NEW all, all = {f[i] : i \in 1..N}
  PROVE  IsFiniteSet(all) /\ Cardinality(all) = N
<1> DEFINE R(k) == {f[i] : i \in 1..k}
           G == {k \in 0..N : IsFiniteSet(R(k)) /\ Cardinality(R(k)) = k}
<1>1. 0 \in G
  <2>1. R(0) = {}
    OBVIOUS
  <2> QED
    BY <2>1, FS_EmptySet
<1>2. ASSUME NEW k \in 1..N, k - 1 \in G PROVE k \in G
  <2>1. PICK A, B : A = R(k - 1) /\ B = R(k)
    OBVIOUS
  <2>2. IsFiniteSet(A) /\ Cardinality(A) = k - 1
    BY <1>2, <2>1
  <2>3. f[k] \notin A
    BY <2>1
  <2>4. B = A \cup {f[k]}
    <3>1. \A i \in 1..k : i = k \/ i \in 1..(k - 1)
      OBVIOUS
    <3>2. \A x \in B : x \in A \/ x = f[k]
      BY <2>1, <3>1
    <3>3. k \in 1..k /\ \A i \in 1..(k - 1) : i \in 1..k
      OBVIOUS
    <3>4. A \subseteq B /\ f[k] \in B
      BY <2>1, <3>3
    <3> QED
      BY <3>2, <3>4
  <2>5. IsFiniteSet(B) /\ Cardinality(B) = (k - 1) + 1
    BY <2>2, <2>3, <2>4, FS_AddElement
  <2> QED
    BY <2>1, <2>5
<1>3. N \in G
  <2> HIDE DEF G
  <2>1. \A k \in 1..N : k - 1 \in G => k \in G
    BY <1>2
  <2>2. 0..N \subseteq G
    BY <1>1, <2>1, NaturalSteps
  <2> QED
    BY <2>2
<1> QED
  BY <1>3

\* The hashes of a tree's chunks are those of its data, and in no store but one
\* that has them all does it verify.
LEMMA VerifiesWhereStored ==
  ASSUME NEW tree, NEW data, NEW size, NEW b \in Nat \ {0, 1}, NEW level, NEW h,
         TreeOf(tree, data, size, b, level, h), NEW other, NEW otherSize
  PROVE  VerifyTree(tree, StoreOf(other, otherSize))
           <=> ToSet(Hashes(tree.chunks)) \subseteq DOMAIN StoreOf(other, otherSize)
<1>1. PICK chunks, C, hs : chunks = tree.chunks /\ C = Ceiling(Len(data), size) /\ hs = Hashes(chunks)
  OBVIOUS
<1>2. ChunksOf(data, size, chunks, C)
  BY <1>1, Zenon DEF TreeOf
<1>3. DOMAIN chunks = 1..C /\ DOMAIN hs = 1..C /\ \A i \in 1..C : hs[i] = chunks[i].hash
  <2>1. DOMAIN chunks = 1..C /\ DOMAIN hs = 1..C
    BY <1>1, <1>2 DEF ChunksOf
  <2>2. hs = [i \in DOMAIN chunks |-> chunks[i].hash]
    BY <1>1, Zenon DEF Hashes
  <2> QED
    BY <2>1, <2>2
<1>4. ToSet(hs) = {hs[i] : i \in 1..C}
  BY <1>3, Zenon DEF ToSet
<1>5. PICK store : store = StoreOf(other, otherSize)
  OBVIOUS
<1>6. \A x \in DOMAIN store : HashData(store[x]) = x
  BY <1>5, StoreHas
<1>7. VerifyTree(tree, store) <=>
        /\ \A i \in DOMAIN chunks : chunks[i].hash \in DOMAIN store /\ HashData(store[chunks[i].hash]) = chunks[i].hash
        /\ LevelsVerify(tree)
  BY <1>1, Zenon DEF VerifyTree, LevelsVerify
<1>8. LevelsVerify(tree)
  BY TreeStands
<1>9. VerifyTree(tree, store) <=> \A i \in 1..C : hs[i] \in DOMAIN store
  BY <1>3, <1>6, <1>7, <1>8
<1> QED
  BY <1>1, <1>4, <1>5, <1>9

\* The chunks of a tree are those in the store.
LEMMA HashesStored ==
  ASSUME NEW tree, NEW data, NEW size, NEW b, NEW level, NEW h, TreeOf(tree, data, size, b, level, h)
  PROVE  ToSet(Hashes(tree.chunks)) = DOMAIN StoreOf(data, size)
<1>1. PICK C, hs : C = Ceiling(Len(data), size) /\ hs = Hashes(tree.chunks)
  OBVIOUS
<1>2. ChunksOf(data, size, tree.chunks, C)
  BY <1>1, Zenon DEF TreeOf
<1>3. DOMAIN hs = 1..C /\ \A i \in 1..C : hs[i] = HashData(Piece(data, size, i))
  BY <1>1, <1>2 DEF ChunksOf
<1>4. ToSet(hs) = {hs[i] : i \in 1..C}
  BY <1>3, Zenon DEF ToSet
<1>5. DOMAIN StoreOf(data, size) = {HashData(Piece(data, size, i)) : i \in 1..C}
  BY <1>1, StoreHas
<1>6. {hs[i] : i \in 1..C} = {HashData(Piece(data, size, i)) : i \in 1..C}
  BY <1>3
<1> QED
  BY <1>1, <1>4, <1>5, <1>6

\* The leaves of one tree are a level of another: its first chunk is what the
\* first node of that level joins.
LEMMA ChunkOfLeaf ==
  ASSUME NEW t1, NEW d1, NEW t2, NEW d2, NEW size, NEW b \in Nat \ {0, 1},
         NEW l, NEW h, TreeOf(t1, d1, size, b, l, h), NEW m, NEW k, TreeOf(t2, d2, size, b, m, k),
         NEW j \in 1..k, HashesPieces(Hashes(t1.chunks), m[j - 1], b)
  PROVE  ChunkIsNode(d1, size, t2)
<1>1. PICK p, C : p = Hashes(t1.chunks) /\ C = Ceiling(Len(d1), size)
  OBVIOUS
<1>2. ChunksOf(d1, size, t1.chunks, C)
  BY <1>1, Zenon DEF TreeOf
<1>3. Len(p) = C /\ C \in Nat \ {0} /\ \A i \in 1..C : p[i] = HashData(Piece(d1, size, i))
  BY <1>1, <1>2 DEF ChunksOf
<1>4. 1 \in 1..C
  BY <1>3
<1>5. PICK s : s = m[j - 1]
  OBVIOUS
<1>6. Len(p) = Ceiling(Len(s), b) /\ p[1] = HashNodes(Piece(s, b, 1))
  BY <1>1, <1>3, <1>4, <1>5 DEF HashesPieces
<1>7. Piece(d1, size, 1) = Piece(s, b, 1)
  BY <1>3, <1>4, <1>6, HashesTell
<1>8. t2.nodes = [i \in 1..k |-> ParentLevel(m[i - 1], b)] /\ IsTower(Hashes(t2.chunks), b, m, k)
  BY Zenon DEF TreeOf
<1>9. DOMAIN t2.nodes = 1..k /\ t2.nodes[j] = ParentLevel(s, b)
  BY <1>5, <1>8
<1>10. IsList(s)
  <2>1. k \in Nat /\ \A i \in 0..k : IsList(m[i])
    BY <1>8 DEF IsTower
  <2>2. j - 1 \in 0..k
    BY <2>1
  <2> QED
    BY <1>5, <2>1, <2>2
<1>11. 1 \in DOMAIN t2.nodes[j] /\ t2.nodes[j][1].children = Piece(s, b, 1)
  <2>1. b \in Nat \ {0}
    OBVIOUS
  <2> QED
    BY <1>3, <1>4, <1>6, <1>9, <1>10, <2>1, ParentsAre
<1>12. Piece(d1, size, 1) = t2.nodes[j][1].children
  BY <1>7, <1>11
<1> QED
  BY <1>1, <1>4, <1>9, <1>11, <1>12, Zenon DEF ChunkIsNode

\* One root under two trees of the same parameters, one no higher than the
\* other: they are of one data, or a chunk of the lower one is a node.
LEMMA RootsOfData ==
  ASSUME NEW S, NEW d1 \in Seq(S), NEW d2 \in Seq(S), NEW size \in Nat \ {0}, NEW b \in Nat \ {0, 1},
         NEW t1, NEW t2, NEW l, NEW h, TreeOf(t1, d1, size, b, l, h),
         NEW m, NEW k, TreeOf(t2, d2, size, b, m, k), t1.root = t2.root, h <= k
  PROVE  IF h = k THEN d1 = d2 ELSE ChunkIsNode(d1, size, t2)
<1>1. PICK p, q, C, D : /\ p = Hashes(t1.chunks) /\ q = Hashes(t2.chunks)
                        /\ C = Ceiling(Len(d1), size) /\ D = Ceiling(Len(d2), size)
  OBVIOUS
<1>2. ChunksOf(d1, size, t1.chunks, C) /\ IsTower(p, b, l, h) /\ t1.root = l[h][1]
  BY <1>1, Zenon DEF TreeOf
<1>3. ChunksOf(d2, size, t2.chunks, D) /\ IsTower(q, b, m, k) /\ t2.root = m[k][1]
  BY <1>1, Zenon DEF TreeOf
<1>4. AreDataHashes(p) /\ Len(p) = C /\ \A i \in 1..C : p[i] = HashData(Piece(d1, size, i))
  BY <1>1, <1>2 DEF ChunksOf
<1>5. AreDataHashes(q) /\ Len(q) = D /\ \A i \in 1..D : q[i] = HashData(Piece(d2, size, i))
  BY <1>1, <1>3 DEF ChunksOf
<1>6. \/ h = k /\ p = q
      \/ h # k /\ \E j \in 1..k : HashesPieces(p, m[j - 1], b)
  <2>1. l[h][1] = m[k][1]
    BY <1>2, <1>3
  <2>2. AreDataHashes(p) /\ AreDataHashes(q) /\ IsTower(p, b, l, h) /\ IsTower(q, b, m, k)
    BY <1>2, <1>3, <1>4, <1>5
  <2> QED
    BY <2>1, <2>2, RootsMeet
<1>7. CASE h = k
  <2>0. p = q
    BY <1>6, <1>7
  <2>1. C = D /\ \A i \in 1..C : Piece(d1, size, i) = Piece(d2, size, i)
    <3>1. C = D /\ \A i \in 1..C : HashData(Piece(d1, size, i)) = HashData(Piece(d2, size, i))
      BY <1>4, <1>5, <2>0
    <3> QED
      BY <3>1, HashesTell
  <2> QED
    BY <1>1, <1>7, <2>1, PiecesTell
<1>8. CASE h # k
  <2>1. PICK j \in 1..k : HashesPieces(p, m[j - 1], b)
    BY <1>6, <1>8
  <2>2. ChunkIsNode(d1, size, t2)
    BY <1>1, <2>1, ChunkOfLeaf
  <2> QED
    BY <1>8, <2>2
<1> QED
  BY <1>7, <1>8

\* Where no chunk comes twice, the reused and the added ones make up the tree.
LEMMA ReuseAddsUp ==
  ASSUME NEW t1, NEW d1, NEW t2, NEW d2, NEW size, NEW b, NEW l, NEW h, TreeOf(t1, d1, size, b, l, h),
         NEW m, NEW k, TreeOf(t2, d2, size, b, m, k), IsInjective(Hashes(t2.chunks))
  PROVE  DiffTrees(t1, t2).reuse[1] + Cardinality(DiffTrees(t1, t2).added) = DiffTrees(t1, t2).reuse[2]
<1>1. PICK hs, D, o, n : /\ hs = Hashes(t2.chunks) /\ D = Ceiling(Len(d2), size)
                         /\ o = ToSet(Hashes(t1.chunks)) /\ n = ToSet(hs)
  OBVIOUS
<1>2. ChunksOf(d2, size, t2.chunks, D)
  BY <1>1, Zenon DEF TreeOf
<1>3. D \in Nat \ {0} /\ DOMAIN hs = 1..D /\ Len(t2.chunks) = D
  BY <1>1, <1>2 DEF ChunksOf
<1>4. \A i, j \in 1..D : hs[i] = hs[j] => i = j
  BY <1>1, <1>3 DEF IsInjective
<1>5. n = {hs[i] : i \in 1..D}
  BY <1>1, <1>3, Zenon DEF ToSet
<1>6. IsFiniteSet(n) /\ Cardinality(n) = D
  BY <1>3, <1>4, <1>5, AsManyAsPlaces
<1>7. DiffTrees(t1, t2).added = n \ o /\ DiffTrees(t1, t2).reuse = ReuseRatio(o \cap n, D)
  BY <1>1, <1>3 DEF DiffTrees
<1>8. ReuseRatio(o \cap n, D) = <<Cardinality(o \cap n), D>>
  BY <1>3 DEF ReuseRatio
<1>9. Cardinality(o \cap n) + Cardinality(n \ o) = D
  <2>1. n \ o = n \ (n \cap o) /\ o \cap n = n \cap o
    OBVIOUS
  <2>2. Cardinality(n \ o) = Cardinality(n) - Cardinality(n \cap o)
    BY <1>6, FS_Difference
  <2>3. Cardinality(n \cap o) \in Nat
    BY <1>6, FS_Intersection, FS_CardinalityType
  <2>4. PICK x, y : x = Cardinality(n \ o) /\ y = Cardinality(n \cap o)
    OBVIOUS
  <2>5. x = D - y
    BY <1>6, <2>2, <2>4
  <2>6. y + x = D
    BY <1>3, <2>3, <2>4, <2>5
  <2> QED
    BY <2>1, <2>4, <2>6
<1> QED
  BY <1>7, <1>8, <1>9

\* Where the chunks of a tree begin and end: one after the other.
ChunksCover(chunks, C, n, N) ==
  \A i \in 1..C : /\ chunks[i].start = (i - 1) * n
                  /\ chunks[i].end \in Nat /\ chunks[i].start < chunks[i].end
                  /\ chunks[i].end = IF (i - 1) * n + n <= N THEN (i - 1) * n + n ELSE N

\* Chunks cover the data without gap or overlap.
LEMMA ChunksRunOn ==
  ASSUME NEW S, NEW data \in Seq(S), NEW size \in Nat \ {0}, NEW chunks, NEW C,
         ChunksOf(data, size, chunks, C)
  PROVE  ChunksCover(chunks, C, size, Len(data))
<1>1. C \in Nat \ {0} /\ C = Ceiling(Len(data), size)
  BY DEF ChunksOf
<1>2. ASSUME NEW i \in 1..C
      PROVE  /\ chunks[i].start = (i - 1) * size
             /\ chunks[i].end \in Nat /\ chunks[i].start < chunks[i].end
             /\ chunks[i].end = IF (i - 1) * size + size <= Len(data) THEN (i - 1) * size + size ELSE Len(data)
  <2>1. PICK from, len : PieceHolds(data, size, i, from, len)
    BY <1>1, PieceIs
  <2>2. PICK N \in Nat : N = Len(data)
    OBVIOUS
  <2>3. /\ from \in Nat /\ len \in 1..size /\ from = (i - 1) * size
        /\ len = IF from + size <= N THEN size ELSE N - from
        /\ Len(Piece(data, size, i)) = len
    BY <2>1, <2>2 DEF PieceHolds
  <2>4. chunks[i].start = from /\ chunks[i].end = from + len
    BY <2>3 DEF ChunksOf
  <2>5. CASE from + size <= N
    BY <2>2, <2>3, <2>4, <2>5
  <2>6. CASE ~(from + size <= N)
    BY <2>2, <2>3, <2>4, <2>6
  <2> QED
    BY <2>5, <2>6
<1> QED
  BY <1>2 DEF ChunksCover

\* The place x lies in exactly one of the chunks.
InOneChunk(chunks, C, x) ==
  \E i \in 1..C : /\ chunks[i].start <= x /\ x < chunks[i].end
                 /\ \A j \in 1..C : chunks[j].start <= x /\ x < chunks[j].end => j = i

\* A place lies in exactly one chunk.
LEMMA PlaceInOneChunk ==
  ASSUME NEW chunks, NEW N \in Nat, NEW n \in Nat \ {0}, NEW C, C = Ceiling(N, n),
         ChunksCover(chunks, C, n, N), NEW x \in 0..(N - 1)
  PROVE  InOneChunk(chunks, C, x)
<1>1. PICK i \in 1..C, r \in 1..n : x + 1 = (i - 1) * n + r
  <2>1. x + 1 \in 1..N
    OBVIOUS
  <2> QED
    BY <2>1, PlaceInPiece
<1>2. C \in Nat
  BY CeilingCovers
<1>3. chunks[i].start <= x /\ x < chunks[i].end
  <2>1. PICK a : a = (i - 1) * n
    OBVIOUS
  <2>2. a \in Int /\ x + 1 = a + r
    BY <1>1, <1>2, <2>1
  <2>3. chunks[i].start = a /\ chunks[i].end = IF a + n <= N THEN a + n ELSE N
    BY <2>1 DEF ChunksCover
  <2>4. CASE a + n <= N
    BY <2>2, <2>3, <2>4
  <2>5. CASE ~(a + n <= N)
    BY <2>2, <2>3, <2>5
  <2> QED
    BY <2>4, <2>5
<1>4. ASSUME NEW j \in 1..C, chunks[j].start <= x, x < chunks[j].end PROVE j = i
  <2>1. PICK a, c : a = (i - 1) * n /\ c = (j - 1) * n
    OBVIOUS
  <2>2. a \in Int /\ c \in Int /\ x + 1 = a + r
    BY <1>1, <1>2, <2>1
  <2>3. chunks[j].start = c /\ chunks[j].end = IF c + n <= N THEN c + n ELSE N
    BY <2>1 DEF ChunksCover
  <2>4. c <= x /\ x < c + n
    <3>1. CASE c + n <= N
      BY <1>4, <2>2, <2>3, <3>1
    <3>2. CASE ~(c + n <= N)
      BY <1>4, <2>2, <2>3, <3>2
    <3> QED
      BY <3>1, <3>2
  <2>5. c < a + n /\ a < c + n
    BY <2>2, <2>4
  <2>6. ASSUME j > i PROVE FALSE
    <3>1. PICK d \in Nat : j - 1 = i + d
      <4>1. j - 1 - i \in Nat /\ j - 1 = i + (j - 1 - i)
        BY <1>2, <2>6
      <4> QED
        BY <4>1
    <3>2. c = (i + d) * n
      BY <2>1, <3>1
    <3>3. (i + d) * n = (i - 1) * n + n + d * n /\ d * n >= 0
      BY <1>2, <3>1
    <3> QED
      BY <2>1, <2>2, <2>5, <3>2, <3>3
  <2>7. ASSUME i > j PROVE FALSE
    <3>1. PICK d \in Nat : i - 1 = j + d
      <4>1. i - 1 - j \in Nat /\ i - 1 = j + (i - 1 - j)
        BY <1>2, <2>7
      <4> QED
        BY <4>1
    <3>2. a = (j + d) * n
      BY <2>1, <3>1
    <3>3. (j + d) * n = (j - 1) * n + n + d * n /\ d * n >= 0
      BY <1>2, <3>1
    <3> QED
      BY <2>1, <2>2, <2>5, <3>2, <3>3
  <2> QED
    BY <1>2, <2>6, <2>7
<1> QED
  BY <1>3, <1>4 DEF InOneChunk

\* Data of which nothing is empty, cut and gathered as the store asks for it:
\* a branching factor of 0 or 1 has no tree.
TreeDomains ==
  /\ Len(Domains["chunks"]) = 4
  /\ \E S : \A i \in 1..2 : Domains["chunks"][i] \subseteq Seq(S) \ {<<>>}
  /\ Domains["chunks"][3] \subseteq Nat \ {0} /\ Domains["chunks"][4] \subseteq Nat \ {0, 1}

\* What the arguments about chunks are.
LEMMA TreesGiven ==
  ASSUME TreeDomains, ArgumentsTyped, Given("chunks")
  PROVE  /\ \E S : input[1] \in Seq(S) /\ input[2] \in Seq(S)
         /\ input[1] # <<>> /\ input[2] # <<>> /\ input[3] \in Nat \ {0} /\ input[4] \in Nat \ {0, 1}
<1>1. \A i \in 1..4 : input[i] \in Domains["chunks"][i]
  BY ArgumentsGiven DEF TreeDomains
<1>2. /\ input[1] \in Domains["chunks"][1] /\ input[2] \in Domains["chunks"][2]
      /\ input[3] \in Domains["chunks"][3] /\ input[4] \in Domains["chunks"][4]
  <2>1. 1 \in 1..4 /\ 2 \in 1..4 /\ 3 \in 1..4 /\ 4 \in 1..4
    OBVIOUS
  <2> QED
    BY <1>1, <2>1, Zenon
<1>3. PICK S : \A i \in 1..2 : Domains["chunks"][i] \subseteq Seq(S) \ {<<>>}
  BY DEF TreeDomains
<1>4. Domains["chunks"][1] \subseteq Seq(S) \ {<<>>} /\ Domains["chunks"][2] \subseteq Seq(S) \ {<<>>}
  <2>1. 1 \in 1..2 /\ 2 \in 1..2
    OBVIOUS
  <2> QED
    BY <1>3, <2>1, Zenon
<1> QED
  BY <1>2, <1>4 DEF TreeDomains

\* The nodes of a tree are as many levels as it rises over its leaves.
LEMMA HeightOfTree ==
  ASSUME NEW tree, NEW data, NEW size, NEW b, NEW level, NEW h,
         TreeOf(tree, data, size, b, level, h)
  PROVE  h \in Nat /\ Len(tree.nodes) = h
<1>1. tree.nodes = [i \in 1..h |-> ParentLevel(level[i - 1], b)]
      /\ IsTower(Hashes(tree.chunks), b, level, h)
  BY Zenon DEF TreeOf
<1>2. h \in Nat
  BY <1>1 DEF IsTower
<1> QED
  BY <1>1, <1>2

\* The property of roots holds of all arguments.
LEMMA TreesIdentify ==
  ASSUME TreeDomains, ArgumentsTyped
  PROVE  MerkleIdentifiesData
<1>1. SUFFICES ASSUME Given("chunks") PROVE MerkleIdentifiesData
  BY Zenon DEF MerkleIdentifiesData
<1>2. PICK d1, d2, size, b : d1 = input[1] /\ d2 = input[2] /\ size = input[3] /\ b = input[4]
  OBVIOUS
<1>3. PICK S : d1 \in Seq(S) /\ d2 \in Seq(S)
  BY <1>1, <1>2, TreesGiven
<1>4. d1 # <<>> /\ d2 # <<>> /\ size \in Nat \ {0} /\ b \in Nat \ {0, 1}
  BY <1>1, <1>2, TreesGiven
<1>5. PICK t1, t2, store : /\ t1 = BuildTree(d1, size, b) /\ t2 = BuildTree(d2, size, b)
                           /\ store = StoreOf(d1, size)
  OBVIOUS
<1>6. PICK l, h : TreeOf(t1, d1, size, b, l, h)
  BY <1>3, <1>4, <1>5, TreesAre
<1>7. PICK m, k : TreeOf(t2, d2, size, b, m, k)
  BY <1>3, <1>4, <1>5, TreesAre
<1>8. PICK o, n : o = ToSet(Hashes(t1.chunks)) /\ n = ToSet(Hashes(t2.chunks))
  OBVIOUS
<1>9. DOMAIN store = o
  BY <1>5, <1>6, <1>8, HashesStored
<1>10. VerifyTree(t1, store)
  <2>1. VerifyTree(t1, store) <=> o \subseteq DOMAIN store
    BY <1>4, <1>5, <1>6, <1>8, VerifiesWhereStored
  <2> QED
    BY <1>9, <2>1
<1>11. VerifyTree(t2, store) <=> DiffTrees(t1, t2).added = {}
  <2>1. VerifyTree(t2, store) <=> n \subseteq DOMAIN store
    BY <1>4, <1>5, <1>7, <1>8, VerifiesWhereStored
  <2>2. DiffTrees(t1, t2).added = n \ o
    BY <1>8 DEF DiffTrees
  <2> QED
    BY <1>9, <2>1, <2>2
<1>12. /\ Len(t1.nodes) = Len(t2.nodes) => (t1.root = t2.root <=> d1 = d2)
       /\ t1.root = t2.root =>
            d1 = d2 \/ ChunkIsNode(d1, size, t2) \/ ChunkIsNode(d2, size, t1)
  <2>1. h \in Nat /\ k \in Nat /\ Len(t1.nodes) = h /\ Len(t2.nodes) = k
    BY <1>6, <1>7, HeightOfTree
  <2>2. d1 = d2 => t1.root = t2.root
    BY <1>5
  <2>3. ASSUME t1.root = t2.root, h <= k
        PROVE  IF h = k THEN d1 = d2 ELSE ChunkIsNode(d1, size, t2)
    BY <1>3, <1>4, <1>6, <1>7, <2>3, RootsOfData
  <2>4. ASSUME t1.root = t2.root, k <= h
        PROVE  IF h = k THEN d1 = d2 ELSE ChunkIsNode(d2, size, t1)
    BY <1>3, <1>4, <1>6, <1>7, <2>4, RootsOfData
  <2>5. h <= k \/ k <= h
    BY <2>1
  <2> QED
    BY <2>1, <2>2, <2>3, <2>4, <2>5
<1>13. IsInjective(Hashes(t2.chunks)) =>
         DiffTrees(t1, t2).reuse[1] + Cardinality(DiffTrees(t1, t2).added) = DiffTrees(t1, t2).reuse[2]
  BY <1>6, <1>7, ReuseAddsUp
<1> QED
  BY <1>2, <1>5, <1>10, <1>11, <1>12, <1>13, Zenon DEF MerkleIdentifiesData

\* Reading these chunks of a tree reads a range of it, and no chunk in vain.
ReadsRange(tree, read, start, end) ==
  /\ start..(end - 1) \subseteq UNION {c.start..(c.end - 1) : c \in read}
  /\ \A c \in read : c.start..(c.end - 1) \cap start..(end - 1) # {}
  /\ \E i \in DOMAIN tree.chunks : ChunkForOffset(tree, start) = {i}

RangeIsRead(tree, start, end) ==
  ReadsRange(tree, {tree.chunks[i] : i \in ChunksInRange(tree, start, end)}, start, end)

\* So does that of reading ranges.
LEMMA RangesSuffice ==
  ASSUME TreeDomains, ArgumentsTyped
  PROVE  RangeReadsSuffice
<1>1. SUFFICES ASSUME Given("chunks") PROVE RangeReadsSuffice
  BY Zenon DEF RangeReadsSuffice
<1>2. PICK data, size, b : data = input[1] /\ size = input[3] /\ b = input[4]
  OBVIOUS
<1>3. PICK S : data \in Seq(S)
  BY <1>1, <1>2, TreesGiven
<1>4. data # <<>> /\ size \in Nat \ {0} /\ b \in Nat \ {0, 1}
  BY <1>1, <1>2, TreesGiven
<1>5. PICK tree : tree = BuildTree(data, size, b)
  OBVIOUS
<1>6. PICK l, h : TreeOf(tree, data, size, b, l, h)
  BY <1>3, <1>4, <1>5, TreesAre
<1>7. PICK N, C, chunks : N \in Nat /\ N = Len(data) /\ C = Ceiling(N, size) /\ chunks = tree.chunks
  BY <1>3
<1>8. ChunksOf(data, size, chunks, C) /\ tree.total = N
  BY <1>6, <1>7, Zenon DEF TreeOf
<1>9. DOMAIN chunks = 1..C /\ C \in Nat
  BY <1>8 DEF ChunksOf
<1>10. ChunksCover(chunks, C, size, N)
  BY <1>3, <1>4, <1>7, <1>8, ChunksRunOn
<1>11. ASSUME NEW i \in 1..C PROVE chunks[i].start \in Nat /\ chunks[i].end \in Nat /\ chunks[i].start < chunks[i].end /\ chunks[i].end <= N
  <2>1. PICK a : a = (i - 1) * size
    OBVIOUS
  <2>2. a \in Nat
    <3>1. i - 1 \in Nat
      BY <1>9
    <3> QED
      BY <1>4, <2>1, <3>1
  <2>3. /\ chunks[i].start = a /\ chunks[i].end \in Nat /\ chunks[i].start < chunks[i].end
        /\ chunks[i].end = IF a + size <= N THEN a + size ELSE N
    BY <1>10, <2>1 DEF ChunksCover
  <2>4. CASE a + size <= N
    BY <2>2, <2>3, <2>4
  <2>5. CASE ~(a + size <= N)
    BY <2>2, <2>3, <2>5
  <2> QED
    BY <2>4, <2>5
<1>12. ASSUME NEW start \in 0..N, NEW end \in 0..N, start < end
       PROVE  RangeIsRead(tree, start, end)
  <2>1. PICK read, within : /\ within = ChunksInRange(tree, start, end)
                            /\ read = {tree.chunks[i] : i \in within}
    OBVIOUS
  <2>2. within = {i \in 1..C : chunks[i].start < end /\ chunks[i].end > start}
    BY <1>7, <1>9, <2>1, Zenon DEF ChunksInRange
  <2>3. start \in Nat /\ end \in Nat
    BY <1>7
  <2>4. start..(end - 1) \subseteq UNION {c.start..(c.end - 1) : c \in read}
    <3>1. SUFFICES ASSUME NEW x \in start..(end - 1)
                   PROVE  \E c \in read : x \in c.start..(c.end - 1)
      OBVIOUS
    <3>2. x \in 0..(N - 1)
      BY <1>7, <2>3
    <3>3. InOneChunk(chunks, C, x)
      BY <1>4, <1>7, <1>10, <3>2, PlaceInOneChunk
    <3>4. PICK i \in 1..C : chunks[i].start <= x /\ x < chunks[i].end
      BY <3>3 DEF InOneChunk
    <3>5. PICK c : c = chunks[i]
      OBVIOUS
    <3>6. c.start \in Nat /\ c.end \in Nat /\ c.start <= x /\ x < c.end
      BY <1>11, <3>4, <3>5
    <3>7. chunks[i].start < end /\ chunks[i].end > start
      BY <2>3, <3>5, <3>6
    <3>8. c \in read
      BY <1>7, <2>1, <2>2, <3>5, <3>7
    <3>9. x \in c.start..(c.end - 1)
      BY <2>3, <3>6
    <3> QED
      BY <3>8, <3>9
  <2>5. ASSUME NEW c \in read PROVE c.start..(c.end - 1) \cap start..(end - 1) # {}
    <3>1. PICK i \in within : c = chunks[i]
      BY <1>7, <2>1
    <3>2. i \in 1..C /\ c.start < end /\ c.end > start
      BY <2>2, <3>1
    <3>3. PICK a, e : a = c.start /\ e = c.end
      OBVIOUS
    <3>4. a \in Nat /\ e \in Nat /\ a < e /\ a < end /\ e > start
      BY <1>11, <3>1, <3>2, <3>3
    <3>5. CASE a <= start
      <4>1. start \in a..(e - 1) /\ start \in start..(end - 1)
        BY <1>12, <2>3, <3>4, <3>5
      <4> QED
        BY <3>3, <4>1
    <3>6. CASE ~(a <= start)
      <4>1. a \in a..(e - 1) /\ a \in start..(end - 1)
        BY <1>12, <2>3, <3>4, <3>6
      <4> QED
        BY <3>3, <4>1
    <3> QED
      BY <3>5, <3>6
  <2>6. \E i \in DOMAIN chunks : ChunkForOffset(tree, start) = {i}
    <3>1. start \in 0..(N - 1)
      BY <1>7, <1>12, <2>3
    <3>2. InOneChunk(chunks, C, start)
      BY <1>4, <1>7, <1>10, <3>1, PlaceInOneChunk
    <3>3. PICK i \in 1..C : /\ chunks[i].start <= start /\ start < chunks[i].end
                            /\ \A j \in 1..C : chunks[j].start <= start /\ start < chunks[j].end => j = i
      BY <3>2 DEF InOneChunk
    <3>4. ChunkForOffset(tree, start) = {j \in 1..C : start >= chunks[j].start /\ start < chunks[j].end}
      BY <1>7, <1>9, Zenon DEF ChunkForOffset
    <3>5. \A j \in 1..C : start >= chunks[j].start <=> chunks[j].start <= start
      BY <1>11, <2>3
    <3>6. ChunkForOffset(tree, start) = {i}
      BY <3>3, <3>4, <3>5
    <3> QED
      BY <1>9, <3>6
  <2>7. ReadsRange(tree, read, start, end)
    <3>1. \E i \in DOMAIN tree.chunks : ChunkForOffset(tree, start) = {i}
      BY <1>7, <2>6
    <3> QED
      BY <2>4, <2>5, <3>1, Zenon DEF ReadsRange
  <2> QED
    BY <2>1, <2>7, Zenon DEF RangeIsRead
<1>13. \A start, end \in 0..tree.total : start < end => RangeIsRead(tree, start, end)
  BY <1>8, <1>12
<1>14. \A start, end \in 0..BuildTree(input[1], input[3], input[4]).total :
         start < end => RangeIsRead(BuildTree(input[1], input[3], input[4]), start, end)
  BY <1>2, <1>5, <1>13, Zenon
<1> QED
  BY <1>14, Zenon DEF RangeReadsSuffice, RangeIsRead, ReadsRange

\* Trees of one height tell data apart by their roots, others where no chunk is
\* what a node hashes, and ranges are found (tree.rs): for any bytes, sizes of
\* chunks and branching factors there are trees of.
THEOREM TreesCorrect ==
  ASSUME TreeDomains
  PROVE  ArgumentsSpec => []MerkleSound
<1>1. ASSUME ArgumentsTyped PROVE MerkleSound
  BY <1>1, TreesIdentify, RangesSuffice DEF MerkleSound
<1> QED
  BY <1>1, ArgumentsCorrect, PTL

-----------------------------------------------------------------------------
(* Flattening sequences of sequences                                        *)

\* Flattening appends, from nothing on.
LEMMA FlattenIs ==
  ASSUME NEW S, NEW N \in Nat, NEW q, q \in [1..N -> Seq(S)], NEW f, Appended(Seq(S), N, q, f)
  PROVE  FlattenSeq(q) = f[N]
<1>1. q \in Seq(Seq(S)) /\ Len(q) = N
  OBVIOUS
<1>2. CASE N = 0
  <2>1. q = <<>>
    BY <1>1, <1>2, EmptySeq
  <2>2. FlattenSeq(q) = q
    BY <1>1, <1>2 DEF FlattenSeq
  <2>3. f[N] = <<>>
    BY <1>2 DEF Appended
  <2> QED
    BY <2>1, <2>2, <2>3
<1>3. CASE N # 0
  <2>1. PICK T : T = Seq(S)
    OBVIOUS
  <2>2. q \in [1..N -> T] /\ AreLists(T) /\ Appended(T, N, q, f)
    BY <1>1, <2>1, SequencesAreLists
  <2> QED
    BY <1>1, <1>3, <2>2, FlattenAppends
<1> QED
  BY <1>2, <1>3

\* Appending sequences goes on to the last.
LEMMA FlattenHas ==
  ASSUME NEW S, NEW N \in Nat, NEW q, q \in [1..N -> Seq(S)]
  PROVE  \E f : Appended(Seq(S), N, q, f)
<1>1. PICK T : T = Seq(S)
  OBVIOUS
<1>2. q \in [1..N -> T] /\ AreLists(T)
  BY <1>1, SequencesAreLists
<1>3. \E f : Appended(T, N, q, f)
  BY <1>2, ListsRepeat
<1> QED
  BY <1>1, <1>3

\* Flattening nothing.
LEMMA FlattenNothing ==
  ASSUME NEW q, q = <<>>
  PROVE  FlattenSeq(q) = <<>>
BY DEF FlattenSeq

\* Flattening lists that are all empty gives none.
LEMMA FlattenEmpties ==
  ASSUME NEW N \in Nat, NEW q, q = [i \in 1..N |-> <<>>]
  PROVE  FlattenSeq(q) = <<>>
<1>1. PICK S : S = {0}
  OBVIOUS
<1>2. q \in [1..N -> Seq(S)]
  OBVIOUS
<1>3. PICK f : f = [i \in 0..N |-> <<>>]
  OBVIOUS
<1>4. \A i \in 1..N : f[i] = f[i - 1] \o q[i]
  <2>1. <<>> \o <<>> = <<>>
    OBVIOUS
  <2>2. ASSUME NEW i \in 1..N PROVE f[i] = <<>> /\ f[i - 1] = <<>> /\ q[i] = <<>>
    BY <1>3
  <2> QED
    BY <2>1, <2>2
<1>5. Appended(Seq(S), N, q, f)
  <2>1. <<>> \in Seq(S)
    OBVIOUS
  <2> QED
    BY <1>3, <1>4, <2>1 DEF Appended
<1>6. FlattenSeq(q) = f[N]
  BY <1>2, <1>5, FlattenIs
<1> QED
  BY <1>3, <1>6

Associates(a, b, c) == (a \o b) \o c = a \o (b \o c)

\* Appending three sequences either way.
LEMMA AppendingAssociates ==
  ASSUME NEW S, NEW a \in Seq(S), NEW b \in Seq(S), NEW c \in Seq(S)
  PROVE  Associates(a, b, c)
<1>1. PICK s, t, x, y : s = a \o b /\ t = b \o c /\ x = s \o c /\ y = a \o t
  OBVIOUS
<1>2. s \in Seq(S) /\ t \in Seq(S) /\ x \in Seq(S) /\ y \in Seq(S)
  BY <1>1
<1>3. PICK L \in Nat, M \in Nat, N \in Nat : L = Len(a) /\ M = Len(b) /\ N = Len(c)
  OBVIOUS
<1>4. Len(s) = L + M /\ Len(t) = M + N /\ Len(x) = L + M + N /\ Len(y) = L + M + N
  BY <1>1, <1>2, <1>3
<1>5. ASSUME NEW i \in 1..(L + M + N) PROVE x[i] = y[i]
  <2>1. CASE i <= L
    <3>1. x[i] = s[i] /\ s[i] = a[i] /\ y[i] = a[i]
      BY <1>1, <1>2, <1>3, <1>4, <2>1
    <3> QED
      BY <3>1
  <2>2. CASE ~(i <= L) /\ i <= L + M
    <3>1. x[i] = s[i] /\ s[i] = b[i - L] /\ y[i] = t[i - L] /\ t[i - L] = b[i - L]
      BY <1>1, <1>2, <1>3, <1>4, <2>2
    <3> QED
      BY <3>1
  <2>3. CASE ~(i <= L + M)
    <3>1. x[i] = c[i - (L + M)] /\ y[i] = t[i - L] /\ t[i - L] = c[(i - L) - M]
      BY <1>1, <1>2, <1>3, <1>4, <2>3
    <3>2. i - (L + M) = (i - L) - M
      OBVIOUS
    <3> QED
      BY <3>1, <3>2
  <2> QED
    BY <2>1, <2>2, <2>3
<1>6. x = y
  BY <1>2, <1>4, <1>5, SeqEqual
<1> QED
  BY <1>1, <1>6 DEF Associates

\* Flattening is appending of sequences of sequences.
LEMMA FlattenConcat ==
  ASSUME NEW S, NEW p \in Seq(Seq(S)), NEW q \in Seq(Seq(S))
  PROVE  FlattenSeq(p \o q) = FlattenSeq(p) \o FlattenSeq(q)
<1>1. PICK N \in Nat, M \in Nat : N = Len(p) /\ M = Len(q)
  OBVIOUS
<1>2. p \in [1..N -> Seq(S)] /\ q \in [1..M -> Seq(S)]
  BY <1>1
<1>3. PICK f : Appended(Seq(S), N, p, f)
  BY <1>2, FlattenHas
<1>4. PICK g : Appended(Seq(S), M, q, g)
  BY <1>2, FlattenHas
<1>5. FlattenSeq(p) = f[N] /\ FlattenSeq(q) = g[M]
  BY <1>2, <1>3, <1>4, FlattenIs
<1>6. PICK r : r = p \o q
  OBVIOUS
<1>7. /\ r \in [1..(N + M) -> Seq(S)]
      /\ \A i \in 1..N : r[i] = p[i]
      /\ \A i \in 1..M : r[N + i] = q[i]
  <2>1. PICK T : T = Seq(S)
    OBVIOUS
  <2>2. /\ r \in Seq(T) /\ Len(r) = N + M
        /\ \A i \in 1..(N + M) : r[i] = IF i <= N THEN p[i] ELSE q[i - N]
    <3>1. p \in Seq(T) /\ q \in Seq(T)
      BY <2>1
    <3> QED
      BY <1>1, <1>6, <3>1
  <2>3. ASSUME NEW i \in 1..M PROVE r[N + i] = q[i]
    <3>1. N + i \in 1..(N + M) /\ ~(N + i <= N) /\ (N + i) - N = i
      OBVIOUS
    <3> QED
      BY <2>2, <3>1
  <2> QED
    BY <2>1, <2>2, <2>3
<1>8. PICK h : h = [i \in 0..(N + M) |-> IF i <= N THEN f[i] ELSE f[N] \o g[i - N]]
  OBVIOUS
<1>9. /\ f \in [0..N -> Seq(S)] /\ g \in [0..M -> Seq(S)] /\ f[0] = <<>> /\ g[0] = <<>>
      /\ \A i \in 1..N : f[i] = f[i - 1] \o p[i]
      /\ \A i \in 1..M : g[i] = g[i - 1] \o q[i]
  BY <1>3, <1>4 DEF Appended
<1>10. h \in [0..(N + M) -> Seq(S)]
  <2>1. ASSUME NEW i \in 0..(N + M), ~(i <= N) PROVE f[N] \o g[i - N] \in Seq(S)
    <3>1. N \in 0..N /\ i - N \in 0..M
      BY <2>1
    <3> QED
      BY <1>9, <3>1
  <2>2. ASSUME NEW i \in 0..(N + M), i <= N PROVE f[i] \in Seq(S)
    BY <1>9, <2>2
  <2> QED
    BY <1>8, <2>1, <2>2
<1>11. ASSUME NEW i \in 1..(N + M) PROVE h[i] = h[i - 1] \o r[i]
  <2>1. CASE i <= N
    <3>1. i \in 1..N /\ i - 1 \in 0..(N + M) /\ i - 1 <= N
      BY <2>1
    <3>2. f[i] = f[i - 1] \o p[i]
      BY <1>9, <3>1
    <3>3. h[i] = f[i] /\ h[i - 1] = f[i - 1] /\ r[i] = p[i]
      BY <1>7, <1>8, <2>1, <3>1
    <3> QED
      BY <3>2, <3>3
  <2>2. CASE ~(i <= N)
    <3>1. PICK k \in 1..M : i = N + k
      <4>1. i - N \in 1..M /\ i = N + (i - N)
        BY <2>2
      <4> QED
        BY <4>1
    <3>2. g[k] = g[k - 1] \o q[k] /\ g[k - 1] \in Seq(S)
      <4>1. k - 1 \in 0..M
        OBVIOUS
      <4> QED
        BY <1>9, <4>1
    <3>3. h[i] = f[N] \o g[k] /\ r[i] = q[k]
      <4>1. i - N = k /\ i \in 0..(N + M)
        BY <3>1
      <4>2. r[i] = q[k]
        BY <1>7, <3>1
      <4> QED
        BY <1>8, <2>2, <4>1, <4>2
    <3>4. h[i - 1] = f[N] \o g[k - 1]
      <4>1. CASE k = 1
        <5>1. i - 1 = N /\ k - 1 = 0
          BY <3>1, <4>1
        <5>2. h[i - 1] = f[N]
          BY <1>8, <5>1
        <5>3. f[N] \o <<>> = f[N]
          <6>1. f[N] \in Seq(S)
            BY <1>9
          <6> QED
            BY <6>1
        <5> QED
          BY <1>9, <5>1, <5>2, <5>3
      <4>2. CASE k # 1
        <5>1. i - 1 \in 0..(N + M) /\ ~(i - 1 <= N) /\ (i - 1) - N = k - 1
          BY <3>1, <4>2
        <5> QED
          BY <1>8, <5>1
      <4> QED
        BY <4>1, <4>2
    <3>5. f[N] \o (g[k - 1] \o q[k]) = (f[N] \o g[k - 1]) \o q[k]
      <4>1. PICK a, b, c : a = f[N] /\ b = g[k - 1] /\ c = q[k]
        OBVIOUS
      <4>2. a \in Seq(S) /\ b \in Seq(S) /\ c \in Seq(S)
        BY <1>2, <1>9, <3>2, <4>1
      <4>3. Associates(a, b, c)
        BY <4>2, AppendingAssociates
      <4> QED
        BY <4>1, <4>3 DEF Associates
    <3> QED
      BY <3>2, <3>3, <3>4, <3>5
  <2> QED
    BY <2>1, <2>2
<1>12. Appended(Seq(S), N + M, r, h)
  <2>1. h[0] = <<>>
    BY <1>8, <1>9
  <2> QED
    BY <1>10, <1>11, <2>1 DEF Appended
<1>13. FlattenSeq(r) = h[N + M]
  <2>1. PICK K \in Nat : K = N + M
    OBVIOUS
  <2>2. r \in [1..K -> Seq(S)]
    BY <1>7, <2>1
  <2>3. Appended(Seq(S), K, r, h)
    BY <1>12, <2>1, Zenon
  <2>4. FlattenSeq(r) = h[K]
    BY <2>2, <2>3, FlattenIs, Zenon
  <2> QED
    BY <2>1, <2>4
<1>14. h[N + M] = f[N] \o g[M]
  <2>1. CASE M = 0
    <3>1. h[N + M] = f[N] /\ g[M] = <<>> /\ f[N] \in Seq(S)
      BY <1>8, <1>9, <2>1
    <3>2. f[N] \o <<>> = f[N]
      BY <3>1
    <3> QED
      BY <3>1, <3>2
  <2>2. CASE M # 0
    <3>1. N + M \in 0..(N + M) /\ ~(N + M <= N) /\ (N + M) - N = M
      BY <2>2
    <3> QED
      BY <1>8, <3>1
  <2> QED
    BY <2>1, <2>2
<1> QED
  BY <1>5, <1>6, <1>13, <1>14

\* Flattening two sequences.
LEMMA FlattenTwo ==
  ASSUME NEW S, NEW a \in Seq(S), NEW b \in Seq(S), NEW q, DOMAIN q = 1..2, q = [i \in 1..2 |-> q[i]],
         q[1] = a, q[2] = b
  PROVE  FlattenSeq(q) = a \o b
<1>1. q \in [1..2 -> Seq(S)]
  <2>1. ASSUME NEW i \in 1..2 PROVE q[i] \in Seq(S)
    <3>1. i = 1 \/ i = 2
      OBVIOUS
    <3> QED
      BY <3>1
  <2> QED
    BY <2>1
<1>2. PICK f : f = [i \in 0..2 |-> IF i = 0 THEN <<>> ELSE IF i = 1 THEN a ELSE a \o b]
  OBVIOUS
<1>3. f[0] = <<>> /\ f[1] = a /\ f[2] = a \o b
  BY <1>2
<1>4. ASSUME NEW i \in 1..2 PROVE f[i] = f[i - 1] \o q[i]
  <2>1. f[1] = f[0] \o q[1] /\ f[2] = f[1] \o q[2]
    BY <1>3
  <2>2. CASE i = 1
    <3>1. i - 1 = 0
      BY <2>2
    <3> QED
      BY <2>1, <2>2, <3>1
  <2>3. CASE i = 2
    <3>1. i - 1 = 1
      BY <2>3
    <3> QED
      BY <2>1, <2>3, <3>1
  <2>4. i = 1 \/ i = 2
    OBVIOUS
  <2> QED
    BY <2>2, <2>3, <2>4
<1>5. f \in [0..2 -> Seq(S)]
  <2>1. <<>> \in Seq(S) /\ a \o b \in Seq(S)
    OBVIOUS
  <2> QED
    BY <1>2, <2>1
<1>6. Appended(Seq(S), 2, q, f)
  BY <1>3, <1>4, <1>5 DEF Appended
<1>7. FlattenSeq(q) = f[2]
  <2>1. 2 \in Nat
    OBVIOUS
  <2> QED
    BY <1>1, <1>6, <2>1, FlattenIs
<1> QED
  BY <1>3, <1>7

-----------------------------------------------------------------------------
(* The rows that filters select                                             *)

\* Each row as a list of its own, if it is selected.
Picked(rows, filters) ==
  [i \in DOMAIN rows |-> IF RowSelected(rows[i], filters) THEN <<rows[i]>> ELSE <<>>]

\* Which rows a filter picks, each in a sequence of its own.
LEMMA PickedTyped ==
  ASSUME NEW Row, NEW rows \in Seq(Row), NEW filters
  PROVE  /\ Picked(rows, filters) \in Seq(Seq(Row)) /\ Len(Picked(rows, filters)) = Len(rows)
         /\ Picked(rows, filters) \in [1..Len(rows) -> Seq(Row)]
<1>1. PICK N \in Nat : N = Len(rows) /\ DOMAIN rows = 1..N
  OBVIOUS
<1>2. PICK p : p = Picked(rows, filters)
  OBVIOUS
<1>3. p = [i \in 1..N |-> IF RowSelected(rows[i], filters) THEN <<rows[i]>> ELSE <<>>]
  BY <1>1, <1>2 DEF Picked
<1>4. \A i \in 1..N : <<rows[i]>> \in Seq(Row) /\ <<>> \in Seq(Row)
  BY <1>1
<1>5. p \in [1..N -> Seq(Row)]
  BY <1>3, <1>4
<1>6. p \in Seq(Seq(Row)) /\ Len(p) = N
  BY <1>5
<1> QED
  BY <1>1, <1>2, <1>5, <1>6

\* What is selected are rows.
LEMMA SelectedTyped ==
  ASSUME NEW Row, NEW rows \in Seq(Row), NEW filters
  PROVE  Selected(rows, filters) \in Seq(Row)
<1>1. PICK N \in Nat : N = Len(rows)
  OBVIOUS
<1>2. PICK p : p = Picked(rows, filters)
  OBVIOUS
<1>3. p \in [1..N -> Seq(Row)]
  BY <1>1, <1>2, PickedTyped
<1>4. FlattenSeq(p) \in Seq(Row)
  BY <1>3, FlattenTyped
<1> QED
  BY <1>2, <1>4 DEF Selected, Picked

\* Selecting from rows and then from others is selecting from both.
LEMMA SelectedConcat ==
  ASSUME NEW Row, NEW a \in Seq(Row), NEW b \in Seq(Row), NEW filters
  PROVE  Selected(a \o b, filters) = Selected(a, filters) \o Selected(b, filters)
<1>1. PICK c : c = a \o b
  OBVIOUS
<1>2. PICK p, q, r : p = Picked(a, filters) /\ q = Picked(b, filters) /\ r = Picked(c, filters)
  OBVIOUS
<1>3. PICK N \in Nat, M \in Nat : N = Len(a) /\ M = Len(b)
  OBVIOUS
<1>4. c \in Seq(Row) /\ Len(c) = N + M
  BY <1>1, <1>3
<1>5. /\ p \in Seq(Seq(Row)) /\ q \in Seq(Seq(Row)) /\ r \in Seq(Seq(Row))
      /\ Len(p) = N /\ Len(q) = M /\ Len(r) = N + M
  BY <1>2, <1>3, <1>4, PickedTyped
<1>6. PICK s : s = p \o q
  OBVIOUS
<1>7. /\ s \in Seq(Seq(Row)) /\ Len(s) = N + M
      /\ \A i \in 1..(N + M) : s[i] = IF i <= N THEN p[i] ELSE q[i - N]
  <2>1. PICK T : T = Seq(Row)
    OBVIOUS
  <2>2. p \in Seq(T) /\ q \in Seq(T) /\ N = Len(p) /\ M = Len(q)
    BY <1>5, <2>1
  <2>3. /\ s \in Seq(T) /\ Len(s) = N + M
        /\ \A i \in 1..(N + M) : s[i] = IF i <= N THEN p[i] ELSE q[i - N]
    BY <1>6, <2>2
  <2> QED
    BY <2>1, <2>3
<1>8. ASSUME NEW i \in 1..(N + M) PROVE r[i] = s[i]
  <2>1. r[i] = IF RowSelected(c[i], filters) THEN <<c[i]>> ELSE <<>>
    <3>1. i \in DOMAIN c
      BY <1>4
    <3> QED
      BY <1>2, <3>1 DEF Picked
  <2>2. CASE i <= N
    <3>1. i \in DOMAIN a /\ c[i] = a[i]
      BY <1>1, <1>3, <2>2
    <3>2. p[i] = IF RowSelected(a[i], filters) THEN <<a[i]>> ELSE <<>>
      BY <1>2, <3>1 DEF Picked
    <3> QED
      BY <1>7, <2>1, <2>2, <3>1, <3>2
  <2>3. CASE ~(i <= N)
    <3>1. i - N \in DOMAIN b /\ c[i] = b[i - N]
      BY <1>1, <1>3, <2>3
    <3>2. q[i - N] = IF RowSelected(b[i - N], filters) THEN <<b[i - N]>> ELSE <<>>
      BY <1>2, <3>1 DEF Picked
    <3> QED
      BY <1>7, <2>1, <2>3, <3>1, <3>2
  <2> QED
    BY <2>2, <2>3
<1>9. r = s
  <2>1. PICK T : T = Seq(Row)
    OBVIOUS
  <2>2. r \in Seq(T) /\ s \in Seq(T) /\ Len(r) = Len(s)
    BY <1>5, <1>7, <2>1
  <2>3. \A i \in 1..Len(r) : r[i] = s[i]
    BY <1>5, <1>8
  <2> QED
    BY <2>2, <2>3, SeqEqual
<1>10. FlattenSeq(s) = FlattenSeq(p) \o FlattenSeq(q)
  BY <1>5, <1>6, FlattenConcat
<1> QED
  BY <1>1, <1>2, <1>9, <1>10 DEF Selected, Picked

\* Where no row is selected nothing is.
LEMMA SelectedNothing ==
  ASSUME NEW Row, NEW rows \in Seq(Row), NEW filters,
         \A i \in 1..Len(rows) : ~RowSelected(rows[i], filters)
  PROVE  Selected(rows, filters) = <<>>
<1>1. PICK N \in Nat : N = Len(rows) /\ DOMAIN rows = 1..N
  OBVIOUS
<1>2. PICK p : p = Picked(rows, filters)
  OBVIOUS
<1>3. p = [i \in 1..N |-> <<>>]
  BY <1>1, <1>2 DEF Picked
<1>4. FlattenSeq(p) = <<>>
  BY <1>3, FlattenEmpties
<1> QED
  BY <1>2, <1>4 DEF Selected, Picked

\* What is selected from each of N lists.
SelectedEach(N, q, filters) == [i \in 1..N |-> Selected(q[i], filters)]
SelectsFromEach(N, q, filters) ==
  Selected(FlattenSeq(q), filters) = FlattenSeq(SelectedEach(N, q, filters))

\* Selecting from the lists of a sequence and appending what is selected is
\* selecting from all of them.
LEMMA SelectedFlatten ==
  ASSUME NEW Row, NEW N \in Nat, NEW q, q \in [1..N -> Seq(Row)], NEW filters
  PROVE  SelectsFromEach(N, q, filters)
<1>0. PICK p : p = SelectedEach(N, q, filters)
  OBVIOUS
<1>1. PICK f : Appended(Seq(Row), N, q, f)
  BY FlattenHas
<1>2. FlattenSeq(q) = f[N]
  BY <1>1, FlattenIs
<1>3. f \in [0..N -> Seq(Row)] /\ f[0] = <<>> /\ \A i \in 1..N : f[i] = f[i - 1] \o q[i]
  BY <1>1 DEF Appended
<1>4. PICK g : g = [i \in 0..N |-> Selected(f[i], filters)]
  OBVIOUS
<1>5. p \in [1..N -> Seq(Row)]
  <2>1. ASSUME NEW i \in 1..N PROVE Selected(q[i], filters) \in Seq(Row)
    BY SelectedTyped
  <2> QED
    BY <1>0, <2>1 DEF SelectedEach
<1>6. g \in [0..N -> Seq(Row)]
  <2>1. ASSUME NEW i \in 0..N PROVE Selected(f[i], filters) \in Seq(Row)
    BY <1>3, SelectedTyped
  <2> QED
    BY <1>4, <2>1
<1>7. g[0] = <<>>
  <2>1. PICK none : none = f[0]
    OBVIOUS
  <2>2. none \in Seq(Row) /\ Len(none) = 0
    BY <1>3, <2>1
  <2>3. \A i \in 1..Len(none) : ~RowSelected(none[i], filters)
    BY <2>2
  <2>4. Selected(none, filters) = <<>>
    BY <2>2, <2>3, SelectedNothing
  <2> QED
    BY <1>4, <2>1, <2>4
<1>8. ASSUME NEW i \in 1..N PROVE g[i] = g[i - 1] \o p[i]
  <2>1. PICK a, b : a = f[i - 1] /\ b = q[i]
    OBVIOUS
  <2>2. a \in Seq(Row) /\ b \in Seq(Row) /\ f[i] = a \o b /\ i - 1 \in 0..N
    <3>1. i - 1 \in 0..N
      OBVIOUS
    <3>2. b \in Seq(Row)
      BY <2>1
    <3> QED
      BY <1>3, <2>1, <3>1, <3>2
  <2>3. Selected(a \o b, filters) = Selected(a, filters) \o Selected(b, filters)
    BY <2>2, SelectedConcat
  <2>4. g[i] = Selected(a \o b, filters)
    <3>1. g[i] = Selected(f[i], filters)
      BY <1>4
    <3> QED
      BY <2>2, <3>1
  <2>5. g[i - 1] = Selected(a, filters) /\ p[i] = Selected(b, filters)
    BY <1>0, <1>4, <2>1, <2>2 DEF SelectedEach
  <2> QED
    BY <2>3, <2>4, <2>5
<1>9. Appended(Seq(Row), N, p, g)
  BY <1>6, <1>7, <1>8 DEF Appended
<1>10. FlattenSeq(p) = g[N]
  BY <1>5, <1>9, FlattenIs
<1>11. g[N] = Selected(f[N], filters)
  BY <1>4
<1> QED
  BY <1>0, <1>2, <1>10, <1>11 DEF SelectsFromEach

\* The pieces of a sequence, one after the other, are the sequence.
LEMMA FlattenPieces ==
  ASSUME NEW S, NEW s \in Seq(S), NEW n \in Nat \ {0}, NEW q,
         q = [i \in 1..Ceiling(Len(s), n) |-> Piece(s, n, i)]
  PROVE  FlattenSeq(q) = s /\ q \in [1..Ceiling(Len(s), n) -> Seq(S)] /\ Ceiling(Len(s), n) \in Nat
<1>1. PICK N \in Nat : N = Len(s)
  OBVIOUS
<1>2. PICK C \in Nat : C = Ceiling(N, n) /\ N <= C * n
  BY CeilingCovers
<1>3. q \in [1..C -> Seq(S)]
  <2>1. ASSUME NEW i \in 1..C PROVE Piece(s, n, i) \in Seq(S)
    BY <1>1, <1>2, PieceIs
  <2> QED
    BY <1>1, <1>2, <2>1
<1>4. PICK f : f = [i \in 0..C |-> SubSeq(s, 1, IF i * n <= N THEN i * n ELSE N)]
  OBVIOUS
<1>5. ASSUME NEW i \in 0..C
      PROVE  \E k \in 0..N : k = (IF i * n <= N THEN i * n ELSE N) /\ f[i] = SubSeq(s, 1, k)
  <2>1. PICK a : a = i * n
    OBVIOUS
  <2>2. a \in Nat
    BY <2>1
  <2>3. (IF a <= N THEN a ELSE N) \in 0..N
    BY <2>2
  <2> QED
    BY <1>4, <2>1, <2>3
<1>6. f \in [0..C -> Seq(S)]
  <2>1. ASSUME NEW i \in 0..C PROVE f[i] \in Seq(S)
    <3>1. PICK k \in 0..N : f[i] = SubSeq(s, 1, k)
      BY <1>5
    <3>2. SubSeq(s, 1, k) \in Seq(S)
      BY <1>1
    <3> QED
      BY <3>1, <3>2
  <2> QED
    BY <1>4, <2>1
<1>7. f[0] = <<>>
  <2>1. 0 * n = 0 /\ 0 <= N
    OBVIOUS
  <2>2. f[0] = SubSeq(s, 1, 0)
    BY <1>4, <2>1
  <2> QED
    BY <2>2, SubSeqEmpty
<1>8. ASSUME NEW i \in 1..C PROVE f[i] = f[i - 1] \o q[i]
  <2>1. PICK k \in 0..N : k = (IF i * n <= N THEN i * n ELSE N) /\ f[i] = SubSeq(s, 1, k)
    BY <1>5
  <2>2. PICK from, len : PieceHolds(s, n, i, from, len)
    BY <1>1, <1>2, PieceIs
  <2>3. /\ from \in Nat /\ len \in 1..n /\ from = (i - 1) * n
        /\ len = IF from + n <= N THEN n ELSE N - from
    BY <1>1, <2>2 DEF PieceHolds
  <2>4. i * n = from + n
    BY <2>3
  <2>5. k = from + len /\ from <= N
    BY <2>1, <2>3, <2>4
  <2>6. f[i - 1] = SubSeq(s, 1, from)
    <3>1. i - 1 \in 0..C
      OBVIOUS
    <3> QED
      BY <1>4, <2>3, <2>5, <3>1
  <2>7. q[i] = SubSeq(s, from + 1, k)
    <3>1. Piece(s, n, i) = SubSeq(s, (i - 1) * n + 1, IF i * n <= Len(s) THEN i * n ELSE Len(s))
      BY DEF Piece
    <3> QED
      BY <1>1, <1>2, <2>1, <2>3, <3>1
  <2>8. SubSeq(s, 1, from) \o SubSeq(s, from + 1, k) = SubSeq(s, 1, k)
    <3>1. 1 \in 1..(Len(s) + 1) /\ from \in (1 - 1)..Len(s) /\ k \in from..Len(s)
      <4>1. 1 - 1 = 0 /\ 1 <= N + 1 /\ from \in 0..N /\ k \in from..N
        BY <2>3, <2>5
      <4> QED
        BY <1>1, <4>1
    <3> QED
      BY <3>1, ConcatAdjacentSubSeq
  <2> QED
    BY <2>1, <2>6, <2>7, <2>8
<1>9. FlattenSeq(q) = f[C]
  <2>1. Appended(Seq(S), C, q, f)
    BY <1>6, <1>7, <1>8 DEF Appended
  <2> QED
    BY <1>3, <2>1, FlattenIs
<1>10. f[C] = s
  <2>1. f[C] = SubSeq(s, 1, N)
    <3>1. PICK k \in 0..N : k = (IF C * n <= N THEN C * n ELSE N) /\ f[C] = SubSeq(s, 1, k)
      BY <1>5
    <3>2. PICK a : a = C * n
      OBVIOUS
    <3>3. a \in Nat /\ N <= a
      BY <1>2, <3>2
    <3> QED
      BY <3>1, <3>2, <3>3
  <2> QED
    BY <1>1, <2>1, SubSeqFull
<1> QED
  BY <1>1, <1>2, <1>3, <1>9, <1>10

-----------------------------------------------------------------------------
(* Statistics and filters                                                   *)

\* What each operation compares.
LEMMA OrderIs ==
  ASSUME NEW a, NEW b
  PROVE  /\ CompareOrd(a, b, "Eq") <=> a = b
         /\ CompareOrd(a, b, "Ne") <=> a # b
         /\ CompareOrd(a, b, "Lt") <=> a < b
         /\ CompareOrd(a, b, "Le") <=> a <= b
         /\ CompareOrd(a, b, "Gt") <=> a > b
         /\ CompareOrd(a, b, "Ge") <=> a >= b
BY Zenon DEF CompareOrd

\* Numbers of a type of which none is NaN compare as numbers.
LEMMA NumbersCompare ==
  ASSUME NEW type, type # "Null", NEW m \in Int, NEW k \in Int, NaN \notin Int, NEW op
  PROVE  Compares(<<type, m>>, <<type, k>>, op) <=> CompareOrd(m, k, op)
<1>1. PICK v, w : v = <<type, m>> /\ w = <<type, k>>
  OBVIOUS
<1>2. v[1] = type /\ w[1] = type /\ v[2] = m /\ w[2] = k
  BY <1>1
<1>3. ~IsNaN(v) /\ ~IsNaN(w)
  <2>1. PICK nan : nan = Float64(NaN)
    OBVIOUS
  <2>2. nan[2] = NaN
    BY <2>1 DEF Float64
  <2>3. v # nan /\ w # nan
    BY <1>2, <2>2
  <2> QED
    BY <2>1, <2>3 DEF IsNaN
<1>4. Comparable(v, w)
  BY <1>2 DEF Comparable
<1>5. Compares(v, w, op) <=> CompareOrd(v[2], w[2], op)
  BY <1>3, <1>4, Zenon DEF Compares
<1> QED
  BY <1>1, <1>2, <1>5

\* The kernels of Arrow agree.
LEMMA KernelsCompare ==
  ASSUME NEW type, type # "Null", NEW n \in Int, NEW k \in Int, NaN \notin Int,
         NEW row, NEW f, row[f.column] = <<type, n>>, f.value = <<type, k>>
  PROVE  RowMatches(row, f) <=> CompareOrd(n, k, f.op)
<1>1. PICK v, w : v = row[f.column] /\ w = f.value
  OBVIOUS
<1>2. v[1] = type /\ w[1] = type /\ v[2] = n /\ w[2] = k
  BY <1>1
<1>3. ~IsNaN(v) /\ ~IsNaN(w)
  <2>1. PICK nan : nan = Float64(NaN)
    OBVIOUS
  <2>2. nan[2] = NaN
    BY <2>1 DEF Float64
  <2>3. v # nan /\ w # nan
    BY <1>2, <2>2
  <2> QED
    BY <2>1, <2>3 DEF IsNaN
<1>4. v # NullValue
  BY <1>2 DEF NullValue
<1>5. RowMatches(row, f) <=> CompareOrd(v[2], w[2], f.op)
  BY <1>1, <1>3, <1>4, Zenon DEF RowMatches
<1> QED
  BY <1>2, <1>5

\* No filter matches a null.
LEMMA NullsMatchNothing ==
  ASSUME NEW row, NEW f, row[f.column] = NullValue
  PROVE  ~RowMatches(row, f)
BY Zenon DEF RowMatches

\* What a filter that prunes has seen in the statistics.
LEMMA PruningSees ==
  ASSUME NEW f, NEW min, NEW max, CanPrune(f, min, max)
  PROVE  /\ f.op = "Gt" => \E s \in max : Compares(s, f.value, "Le")
         /\ f.op = "Ge" => \E s \in max : Compares(s, f.value, "Lt")
         /\ f.op = "Lt" => \E s \in min : Compares(s, f.value, "Ge")
         /\ f.op = "Le" => \E s \in min : Compares(s, f.value, "Gt")
         /\ f.op = "Eq" => \/ \E s \in min : Compares(f.value, s, "Lt")
                           \/ \E s \in max : Compares(f.value, s, "Gt")
         /\ f.op = "Ne" => /\ \E s \in min : Compares(s, f.value, "Eq")
                           /\ \E s \in max : Compares(s, f.value, "Eq")
<1>1. f.op = "Gt" => \E s \in max : Compares(s, f.value, "Le")
  BY Zenon DEF CanPrune
<1>2. f.op = "Ge" => \E s \in max : Compares(s, f.value, "Lt")
  BY Zenon DEF CanPrune
<1>3. f.op = "Lt" => \E s \in min : Compares(s, f.value, "Ge")
  BY Zenon DEF CanPrune
<1>4. f.op = "Le" => \E s \in min : Compares(s, f.value, "Gt")
  BY Zenon DEF CanPrune
<1>5. f.op = "Eq" => \/ \E s \in min : Compares(f.value, s, "Lt")
                     \/ \E s \in max : Compares(f.value, s, "Gt")
  BY Zenon DEF CanPrune
<1>6. f.op = "Ne" => /\ \E s \in min : Compares(s, f.value, "Eq")
                     /\ \E s \in max : Compares(s, f.value, "Eq")
  BY Zenon DEF CanPrune
<1> QED
  BY <1>1, <1>2, <1>3, <1>4, <1>5, <1>6

\* Cells of a column: numbers of its type, or null.
IsColumn(group, c, type) ==
  \A i \in DOMAIN group : group[i][c] = NullValue \/ \E n \in Int : group[i][c] = <<type, n>>

\* The statistics bound every number of the column.
LEMMA StatisticsBound ==
  ASSUME NEW type, type # "Null", NaN \notin Int, NEW group, NEW c, IsColumn(group, c, type),
         NEW i \in DOMAIN group, NEW n \in Int, group[i][c] = <<type, n>>
  PROVE  /\ \A s \in Least(Counted(group, c)) : \E m \in Int : s = <<type, m>> /\ m <= n
         /\ \A s \in Greatest(Counted(group, c)) : \E m \in Int : s = <<type, m>> /\ n <= m
<1>1. PICK vs : vs = Counted(group, c)
  OBVIOUS
<1>2. ASSUME NEW s \in vs PROVE \E m \in Int : s = <<type, m>>
  <2>1. s \in {group[j][c] : j \in DOMAIN group} /\ s # NullValue
    BY <1>1 DEF Counted
  <2>2. PICK j \in DOMAIN group : s = group[j][c]
    BY <2>1
  <2> QED
    BY <2>1, <2>2 DEF IsColumn
<1>3. PICK v : v = <<type, n>>
  OBVIOUS
<1>4. v \in vs
  <2>1. v # NullValue
    <3>1. v[1] = type
      BY <1>3
    <3>2. NullValue[1] = "Null"
      BY DEF NullValue
    <3> QED
      BY <3>1, <3>2
  <2>2. ~IsNaN(v)
    <3>1. PICK nan : nan = Float64(NaN)
      OBVIOUS
    <3>2. nan[2] = NaN
      BY <3>1 DEF Float64
    <3>3. v[2] = n
      BY <1>3
    <3>4. v # nan
      BY <3>2, <3>3
    <3> QED
      BY <3>1, <3>4 DEF IsNaN
  <2>3. v \in {group[j][c] : j \in DOMAIN group}
    BY <1>3
  <2> QED
    BY <1>1, <2>1, <2>2, <2>3, Zenon DEF Counted
<1>5. v[2] = n
  BY <1>3
<1>6. ASSUME NEW s \in Least(vs) PROVE \E m \in Int : s = <<type, m>> /\ m <= n
  <2>1. s \in vs /\ s[2] <= v[2]
    BY <1>4 DEF Least
  <2>2. PICK m \in Int : s = <<type, m>>
    BY <1>2, <2>1
  <2>3. s[2] = m
    BY <2>2
  <2> QED
    BY <1>5, <2>1, <2>2, <2>3
<1>7. ASSUME NEW s \in Greatest(vs) PROVE \E m \in Int : s = <<type, m>> /\ n <= m
  <2>1. s \in vs /\ s[2] >= v[2]
    BY <1>4 DEF Greatest
  <2>2. PICK m \in Int : s = <<type, m>>
    BY <1>2, <2>1
  <2>3. s[2] = m
    BY <2>2
  <2> QED
    BY <1>5, <2>1, <2>2, <2>3
<1> QED
  BY <1>1, <1>6, <1>7

\* Statistics with the numbers that are between them.
Between(type, min, max, n) ==
  /\ \A s \in min : \E m \in Int : s = <<type, m>> /\ m <= n
  /\ \A s \in max : \E m \in Int : s = <<type, m>> /\ n <= m

\* A number between statistics that prune is not what the filter looks for.
LEMMA PrunedOutside ==
  ASSUME NEW type, type # "Null", NaN \notin Int, NEW f, NEW k \in Int, f.value = <<type, k>>,
         f.op \in FilterOp, NEW min, NEW max, NEW n \in Int, Between(type, min, max, n),
         CanPrune(f, min, max)
  PROVE  ~CompareOrd(n, k, f.op)
<1>1. ASSUME NEW s \in min PROVE \E m \in Int : s = <<type, m>> /\ m <= n
  BY DEF Between
<1>2. ASSUME NEW s \in max PROVE \E m \in Int : s = <<type, m>> /\ n <= m
  BY DEF Between
<1>3. CASE f.op = "Gt"
  <2>1. PICK s \in max : Compares(s, f.value, "Le")
    BY <1>3, PruningSees
  <2>2. PICK m \in Int : s = <<type, m>> /\ n <= m
    BY <1>2
  <2>3. CompareOrd(m, k, "Le")
    BY <2>1, <2>2, NumbersCompare
  <2>4. m <= k
    BY <2>3, OrderIs
  <2>5. ~(n > k)
    BY <2>2, <2>4
  <2> QED
    BY <1>3, <2>5, OrderIs
<1>4. CASE f.op = "Ge"
  <2>1. PICK s \in max : Compares(s, f.value, "Lt")
    BY <1>4, PruningSees
  <2>2. PICK m \in Int : s = <<type, m>> /\ n <= m
    BY <1>2
  <2>3. CompareOrd(m, k, "Lt")
    BY <2>1, <2>2, NumbersCompare
  <2>4. m < k
    BY <2>3, OrderIs
  <2>5. ~(n >= k)
    BY <2>2, <2>4
  <2> QED
    BY <1>4, <2>5, OrderIs
<1>5. CASE f.op = "Lt"
  <2>1. PICK s \in min : Compares(s, f.value, "Ge")
    BY <1>5, PruningSees
  <2>2. PICK m \in Int : s = <<type, m>> /\ m <= n
    BY <1>1
  <2>3. CompareOrd(m, k, "Ge")
    BY <2>1, <2>2, NumbersCompare
  <2>4. m >= k
    BY <2>3, OrderIs
  <2>5. ~(n < k)
    BY <2>2, <2>4
  <2> QED
    BY <1>5, <2>5, OrderIs
<1>6. CASE f.op = "Le"
  <2>1. PICK s \in min : Compares(s, f.value, "Gt")
    BY <1>6, PruningSees
  <2>2. PICK m \in Int : s = <<type, m>> /\ m <= n
    BY <1>1
  <2>3. CompareOrd(m, k, "Gt")
    BY <2>1, <2>2, NumbersCompare
  <2>4. m > k
    BY <2>3, OrderIs
  <2>5. ~(n <= k)
    BY <2>2, <2>4
  <2> QED
    BY <1>6, <2>5, OrderIs
<1>7. CASE f.op = "Eq"
  <2>1. n # k
    <3>1. CASE \E s \in min : Compares(f.value, s, "Lt")
      <4>1. PICK s \in min : Compares(f.value, s, "Lt")
        BY <3>1
      <4>2. PICK m \in Int : s = <<type, m>> /\ m <= n
        BY <1>1
      <4>3. CompareOrd(k, m, "Lt")
        BY <4>1, <4>2, NumbersCompare
      <4>4. k < m
        BY <4>3, OrderIs
      <4> QED
        BY <4>2, <4>4
    <3>2. CASE \E s \in max : Compares(f.value, s, "Gt")
      <4>1. PICK s \in max : Compares(f.value, s, "Gt")
        BY <3>2
      <4>2. PICK m \in Int : s = <<type, m>> /\ n <= m
        BY <1>2
      <4>3. CompareOrd(k, m, "Gt")
        BY <4>1, <4>2, NumbersCompare
      <4>4. k > m
        BY <4>3, OrderIs
      <4> QED
        BY <4>2, <4>4
    <3> QED
      BY <1>7, <3>1, <3>2, PruningSees
  <2> QED
    BY <1>7, <2>1, OrderIs
<1>8. CASE f.op = "Ne"
  <2>1. PICK s \in min : Compares(s, f.value, "Eq")
    BY <1>8, PruningSees
  <2>2. PICK m \in Int : s = <<type, m>> /\ m <= n
    BY <1>1
  <2>3. PICK t \in max : Compares(t, f.value, "Eq")
    BY <1>8, PruningSees
  <2>4. PICK l \in Int : t = <<type, l>> /\ n <= l
    BY <1>2
  <2>5. CompareOrd(m, k, "Eq") /\ CompareOrd(l, k, "Eq")
    BY <2>1, <2>2, <2>3, <2>4, NumbersCompare
  <2>6. m = k /\ l = k
    BY <2>5, OrderIs
  <2>7. n = k
    BY <2>2, <2>4, <2>6
  <2> QED
    BY <1>8, <2>7, OrderIs
<1> QED
  BY <1>3, <1>4, <1>5, <1>6, <1>7, <1>8 DEF FilterOp

\* Filters on columns of the rows, each with a number of its column's type.
RowsFit(rows, filters, Named, Type) ==
  /\ \A c \in Named : Type[c] # "Null" /\ IsColumn(rows, c, Type[c])
  /\ \A k \in DOMAIN filters :
       /\ filters[k].column \in Named /\ filters[k].op \in FilterOp
       /\ \E i \in Int : filters[k].value = <<Type[filters[k].column], i>>

\* A pruned row group has no row that the filters select.
LEMMA PrunedHasNone ==
  ASSUME NaN \notin Int, NEW file, NEW g, NEW filters, NEW Named, NEW Type,
         RowsFit(file.groups[g], filters, Named, Type),
         CanPruneRowGroup(file, g, filters), NEW i \in DOMAIN file.groups[g]
  PROVE  ~RowSelected(file.groups[g][i], filters)
<1>1. PICK k \in DOMAIN filters :
        CanPrune(filters[k], MinStat(file, g, filters[k].column), MaxStat(file, g, filters[k].column))
  BY Zenon DEF CanPruneRowGroup
<1>2. PICK f, c, type, group, min, max :
        /\ f = filters[k] /\ c = f.column /\ type = Type[c] /\ group = file.groups[g]
        /\ min = MinStat(file, g, c) /\ max = MaxStat(file, g, c)
  OBVIOUS
<1>3. /\ c \in Named /\ f.op \in FilterOp /\ type # "Null" /\ IsColumn(group, c, type)
      /\ \E j \in Int : f.value = <<type, j>>
  BY <1>1, <1>2 DEF RowsFit
<1>4. PICK j \in Int : f.value = <<type, j>>
  BY <1>3
<1>5. CanPrune(f, min, max)
  BY <1>1, <1>2
<1>6. group[i][c] = NullValue \/ \E n \in Int : group[i][c] = <<type, n>>
  BY <1>2, <1>3 DEF IsColumn
<1>7. PICK row : row = group[i]
  OBVIOUS
<1>8. ~RowMatches(row, f)
  <2>1. CASE row[c] = NullValue
    BY <1>2, <2>1, NullsMatchNothing
  <2>2. CASE \E n \in Int : row[c] = <<type, n>>
    <3>1. PICK n \in Int : row[c] = <<type, n>>
      BY <2>2
    <3>2. RowMatches(row, f) <=> CompareOrd(n, j, f.op)
      BY <1>2, <1>3, <1>4, <3>1, KernelsCompare
    <3>3. Between(type, Least(Counted(group, c)), Greatest(Counted(group, c)), n)
      <4>1. i \in DOMAIN group /\ group[i][c] = <<type, n>>
        BY <1>2, <1>7, <3>1
      <4>2. /\ \A s \in Least(Counted(group, c)) : \E m \in Int : s = <<type, m>> /\ m <= n
            /\ \A s \in Greatest(Counted(group, c)) : \E m \in Int : s = <<type, m>> /\ n <= m
        BY <1>3, <4>1, StatisticsBound
      <4> QED
        BY <4>2 DEF Between
    <3>4. /\ min = IF file.statistics THEN Least(Counted(group, c)) ELSE {}
          /\ max = IF file.statistics THEN Greatest(Counted(group, c)) ELSE {}
      BY <1>2 DEF MinStat, MaxStat
    <3>5. Between(type, min, max, n)
      BY <3>3, <3>4 DEF Between
    <3>6. ~CompareOrd(n, j, f.op)
      BY <1>3, <1>4, <1>5, <3>5, PrunedOutside
    <3> QED
      BY <3>2, <3>6
  <2> QED
    BY <1>6, <1>7, <2>1, <2>2
<1> QED
  BY <1>1, <1>2, <1>7, <1>8 DEF RowSelected

\* A file as it is written: pieces of its rows.
LEMMA EncodedFile ==
  ASSUME NEW Row, NEW rows \in Seq(Row), NEW size \in Nat \ {0}, NEW statistics
  PROVE  /\ Encode(rows, size, statistics).groups = [i \in 1..Ceiling(Len(rows), size) |-> Piece(rows, size, i)]
         /\ Encode(rows, size, statistics).statistics = statistics
<1>1. PICK N \in Nat : N = Len(rows)
  OBVIOUS
<1>2. PICK C \in Nat : C = Ceiling(N, size)
  BY CeilingCovers
<1>3. ASSUME NEW i \in 1..C
      PROVE  (IF i * size < N THEN i * size ELSE N) = (IF i * size <= N THEN i * size ELSE N)
  <2>1. PICK a : a = i * size
    OBVIOUS
  <2>2. a \in Nat
    BY <2>1
  <2>3. (IF a < N THEN a ELSE N) = (IF a <= N THEN a ELSE N)
    BY <2>2
  <2> QED
    BY <2>1, <2>3
<1>4. PICK p, q :
        /\ p = [i \in 1..C |-> SubSeq(rows, (i - 1) * size + 1, IF i * size < N THEN i * size ELSE N)]
        /\ q = [i \in 1..C |-> Piece(rows, size, i)]
  OBVIOUS
<1>5. ASSUME NEW i \in 1..C
      PROVE  SubSeq(rows, (i - 1) * size + 1, IF i * size < N THEN i * size ELSE N) = Piece(rows, size, i)
  <2>1. Piece(rows, size, i) = SubSeq(rows, (i - 1) * size + 1, IF i * size <= N THEN i * size ELSE N)
    BY <1>1 DEF Piece
  <2> QED
    BY <1>3, <2>1
<1>6. p = q
  BY <1>4, <1>5
<1>7. Encode(rows, size, statistics) = [groups |-> p, statistics |-> statistics]
  <2>1. C = (N + size - 1) \div size
    BY <1>2 DEF Ceiling
  <2> QED
    BY <1>1, <1>4, <2>1, Zenon DEF Encode
<1> QED
  BY <1>1, <1>2, <1>4, <1>6, <1>7

\* What a reader gets back of a file.
LEMMA DecodeEncoded ==
  ASSUME NEW Row, NEW rows \in Seq(Row), NEW size \in Nat \ {0}, NEW statistics
  PROVE  Decode(Encode(rows, size, statistics)) = rows
<1>1. PICK q : q = Encode(rows, size, statistics).groups
  OBVIOUS
<1>2. q = [i \in 1..Ceiling(Len(rows), size) |-> Piece(rows, size, i)]
  BY <1>1, EncodedFile
<1>3. FlattenSeq(q) = rows
  BY <1>2, FlattenPieces
<1> QED
  BY <1>1, <1>3 DEF Decode

\* A batch of two files.
LEMMA DecodeTwo ==
  ASSUME NEW Row, NEW a \in Seq(Row), NEW b \in Seq(Row), NEW size \in Nat \ {0}, NEW statistics
  PROVE  FlattenSeq(DecodeBatch(EncodeBatch(<<a, b>>, size, statistics))) = a \o b
<1>1. PICK ab : ab = <<a, b>>
  OBVIOUS
<1>2. DOMAIN ab = 1..2 /\ ab[1] = a /\ ab[2] = b
  BY <1>1
<1>3. PICK files : files = EncodeBatch(ab, size, statistics)
  OBVIOUS
<1>4. DOMAIN files = 1..2 /\ \A i \in 1..2 : files[i] = Encode(ab[i], size, statistics)
  BY <1>2, <1>3, Zenon DEF EncodeBatch
<1>5. PICK q : q = DecodeBatch(files)
  OBVIOUS
<1>6. q = [i \in 1..2 |-> Decode(files[i])]
  BY <1>4, <1>5, Zenon DEF DecodeBatch
<1>7. q[1] = a /\ q[2] = b
  <2>1. Decode(Encode(a, size, statistics)) = a /\ Decode(Encode(b, size, statistics)) = b
    BY DecodeEncoded
  <2>2. 1 \in 1..2 /\ 2 \in 1..2
    OBVIOUS
  <2> QED
    BY <1>2, <1>4, <1>6, <2>1, <2>2
<1>8. FlattenSeq(q) = a \o b
  <2>1. DOMAIN q = 1..2 /\ q = [i \in 1..2 |-> q[i]]
    BY <1>6
  <2> QED
    BY <1>7, <2>1, FlattenTwo
<1> QED
  BY <1>1, <1>3, <1>5, <1>8

\* A row of a group is a row of the file.
LEMMA GroupsFit ==
  ASSUME NEW Row, NEW rows \in Seq(Row), NEW size \in Nat \ {0}, NEW filters, NEW Named, NEW Type,
         RowsFit(rows, filters, Named, Type), NEW i \in 1..Ceiling(Len(rows), size)
  PROVE  RowsFit(Piece(rows, size, i), filters, Named, Type)
<1>1. PICK from, len : PieceHolds(rows, size, i, from, len)
  BY PieceIs
<1>1a. PICK N \in Nat : N = Len(rows)
  OBVIOUS
<1>2. PICK p : N = Len(rows) /\ p = Piece(rows, size, i)
  BY <1>1a
<1>3. p \in Seq(Row)
  BY <1>2, PieceIs
<1>4. /\ from \in Nat /\ len \in 1..size /\ Len(p) = len
      /\ len = IF from + size <= N THEN size ELSE N - from
      /\ \A r \in 1..len : p[r] = rows[from + r]
  BY <1>1, <1>2 DEF PieceHolds
<1>5. DOMAIN p = 1..len /\ DOMAIN rows = 1..N
  BY <1>2, <1>3, <1>4
<1>6. ASSUME NEW r \in DOMAIN p PROVE from + r \in DOMAIN rows /\ p[r] = rows[from + r]
  BY <1>4, <1>5
<1>7. ASSUME NEW c, NEW type, IsColumn(rows, c, type) PROVE IsColumn(p, c, type)
  <2>1. ASSUME NEW r \in DOMAIN p
        PROVE  p[r][c] = NullValue \/ \E n \in Int : p[r][c] = <<type, n>>
    <3>1. PICK x \in DOMAIN rows : p[r] = rows[x]
      BY <1>6
    <3>2. rows[x][c] = NullValue \/ \E n \in Int : rows[x][c] = <<type, n>>
      BY <1>7 DEF IsColumn
    <3> QED
      BY <3>1, <3>2
  <2> QED
    BY <2>1 DEF IsColumn
<1> QED
  BY <1>2, <1>7 DEF RowsFit

\* Filtering the row groups that are left is filtering the rows.
LEMMA FilteredRead ==
  ASSUME NaN \notin Int, NEW Row, NEW rows \in Seq(Row), NEW size \in Nat \ {0}, NEW statistics,
         NEW filters, NEW Named, NEW Type, RowsFit(rows, filters, Named, Type),
         NEW file, file = Encode(rows, size, statistics),
         NEW kept, kept = [i \in DOMAIN file.groups |->
                             IF i \in KeptGroups(file, filters) THEN file.groups[i] ELSE <<>>]
  PROVE  /\ Selected(FlattenSeq(kept), filters) = Selected(rows, filters)
         /\ \A i \in DOMAIN file.groups :
              Selected(file.groups[i], filters) # <<>> => i \in KeptGroups(file, filters)
<1>1. PICK C, q : C = Ceiling(Len(rows), size) /\ q = file.groups
  OBVIOUS
<1>2. q = [i \in 1..C |-> Piece(rows, size, i)]
  BY <1>1, EncodedFile
<1>3. C \in Nat /\ q \in [1..C -> Seq(Row)] /\ FlattenSeq(q) = rows
  BY <1>1, <1>2, FlattenPieces
<1>4. kept = [i \in 1..C |-> IF i \in KeptGroups(file, filters) THEN q[i] ELSE <<>>]
  BY <1>1, <1>2
<1>5. kept \in [1..C -> Seq(Row)]
  <2>1. <<>> \in Seq(Row)
    OBVIOUS
  <2> QED
    BY <1>3, <1>4, <2>1
<1>6. ASSUME NEW i \in 1..C, i \notin KeptGroups(file, filters) PROVE Selected(q[i], filters) = <<>>
  <2>1. CanPruneRowGroup(file, i, filters)
    BY <1>1, <1>2, <1>6, Zenon DEF KeptGroups
  <2>2. PICK p : p = q[i]
    OBVIOUS
  <2>3. p \in Seq(Row) /\ p = Piece(rows, size, i) /\ p = file.groups[i]
    BY <1>1, <1>2, <1>3, <2>2
  <2>4. RowsFit(file.groups[i], filters, Named, Type)
    <3>1. RowsFit(Piece(rows, size, i), filters, Named, Type)
      BY <1>1, GroupsFit
    <3> QED
      BY <2>3, <3>1
  <2>5. ASSUME NEW r \in 1..Len(p) PROVE ~RowSelected(p[r], filters)
    <3>1. r \in DOMAIN file.groups[i]
      BY <2>3
    <3>2. ~RowSelected(file.groups[i][r], filters)
      BY <2>1, <2>4, <3>1, PrunedHasNone
    <3> QED
      BY <2>3, <3>2
  <2>6. Selected(p, filters) = <<>>
    BY <2>3, <2>5, SelectedNothing
  <2> QED
    BY <2>2, <2>6
<1>7. ASSUME NEW i \in 1..C PROVE Selected(kept[i], filters) = Selected(q[i], filters)
  <2>1. CASE i \in KeptGroups(file, filters)
    BY <1>4, <2>1
  <2>2. CASE i \notin KeptGroups(file, filters)
    <3>1. kept[i] = <<>>
      BY <1>4, <2>2
    <3>2. Selected(q[i], filters) = <<>>
      BY <1>6, <2>2
    <3>3. PICK none : none = <<>>
      OBVIOUS
    <3>4. none \in Seq(Row) /\ Len(none) = 0
      BY <3>3
    <3>5. \A r \in 1..Len(none) : ~RowSelected(none[r], filters)
      BY <3>4
    <3>6. Selected(none, filters) = <<>>
      BY <3>4, <3>5, SelectedNothing
    <3> QED
      BY <3>1, <3>2, <3>3, <3>6
  <2> QED
    BY <2>1, <2>2
<1>8. PICK s, t : s = SelectedEach(C, kept, filters) /\ t = SelectedEach(C, q, filters)
  OBVIOUS
<1>9. s = t
  BY <1>7, <1>8 DEF SelectedEach
<1>10. Selected(FlattenSeq(kept), filters) = FlattenSeq(s)
  <2>1. SelectsFromEach(C, kept, filters)
    BY <1>3, <1>5, SelectedFlatten
  <2> QED
    BY <1>8, <2>1 DEF SelectsFromEach
<1>11. Selected(FlattenSeq(q), filters) = FlattenSeq(t)
  <2>1. SelectsFromEach(C, q, filters)
    BY <1>3, SelectedFlatten
  <2> QED
    BY <1>8, <2>1 DEF SelectsFromEach
<1>12. Selected(FlattenSeq(kept), filters) = Selected(rows, filters)
  BY <1>3, <1>9, <1>10, <1>11
<1>13. ASSUME NEW i \in DOMAIN file.groups, Selected(file.groups[i], filters) # <<>>
       PROVE  i \in KeptGroups(file, filters)
  BY <1>1, <1>2, <1>6, <1>13
<1> QED
  BY <1>12, <1>13

\* Without a filter every row is selected.
LEMMA AllSelected ==
  ASSUME NEW Row, NEW rows \in Seq(Row)
  PROVE  Selected(rows, <<>>) = rows
<1>1. PICK N \in Nat : N = Len(rows)
  OBVIOUS
<1>2. PICK p : p = Picked(rows, <<>>)
  OBVIOUS
<1>3. p \in [1..N -> Seq(Row)]
  BY <1>1, <1>2, PickedTyped
<1>4. ASSUME NEW i \in 1..N PROVE p[i] = <<rows[i]>>
  <2>1. RowSelected(rows[i], <<>>)
    BY DEF RowSelected
  <2>2. i \in DOMAIN rows
    BY <1>1
  <2> QED
    BY <1>2, <2>1, <2>2 DEF Picked
<1>5. PICK f : f = [i \in 0..N |-> SubSeq(rows, 1, i)]
  OBVIOUS
<1>6. f \in [0..N -> Seq(Row)]
  <2>1. ASSUME NEW i \in 0..N PROVE SubSeq(rows, 1, i) \in Seq(Row)
    BY <1>1
  <2> QED
    BY <1>5, <2>1
<1>7. f[0] = <<>>
  <2>1. f[0] = SubSeq(rows, 1, 0)
    BY <1>5
  <2> QED
    BY <2>1, SubSeqEmpty
<1>8. ASSUME NEW i \in 1..N PROVE f[i] = f[i - 1] \o p[i]
  <2>1. 1 \in 1..Len(rows) /\ i \in 1..Len(rows)
    BY <1>1
  <2>2. SubSeq(rows, 1, i) = SubSeq(rows, 1, i - 1) \o <<rows[i]>>
    BY <2>1, SubSeqRecursiveSecond
  <2>3. i - 1 \in 0..N /\ i \in 0..N
    OBVIOUS
  <2>4. f[i] = SubSeq(rows, 1, i) /\ f[i - 1] = SubSeq(rows, 1, i - 1)
    BY <1>5, <2>3
  <2> QED
    BY <1>4, <2>2, <2>4
<1>9. FlattenSeq(p) = f[N]
  <2>1. Appended(Seq(Row), N, p, f)
    BY <1>6, <1>7, <1>8 DEF Appended
  <2> QED
    BY <1>3, <2>1, FlattenIs
<1>10. f[N] = rows
  <2>1. f[N] = SubSeq(rows, 1, N)
    BY <1>5
  <2> QED
    BY <1>1, <2>1, SubSeqFull
<1> QED
  BY <1>2, <1>9, <1>10 DEF Selected, Picked

\* The statistics of a filtered read: every row group is pruned or kept, and
\* those are kept that have a row to select.
LEMMA StatisticsAddUp ==
  ASSUME NEW file, NEW C \in Nat, DOMAIN file.groups = 1..C, Len(file.groups) = C, NEW filters,
         NEW holding, holding \subseteq DOMAIN file.groups,
         filters # <<>> => holding \subseteq KeptGroups(file, filters)
  PROVE  /\ PruningStats(file, filters)[2] + PruningStats(file, filters)[3] = PruningStats(file, filters)[1]
         /\ PruningStats(file, filters)[3] >= Cardinality(holding)
<1>1. PICK kept, k : kept = KeptGroups(file, filters) /\ k = Cardinality(kept)
  OBVIOUS
<1>2. IsFiniteSet(1..C) /\ Cardinality(1..C) = C
  BY FS_Interval
<1>3. kept \subseteq 1..C
  BY <1>1 DEF KeptGroups
<1>4. IsFiniteSet(kept) /\ k \in Nat /\ k <= C
  <2>1. IsFiniteSet(kept) /\ Cardinality(kept) <= Cardinality(1..C)
    BY <1>2, <1>3, FS_Subset
  <2> QED
    BY <1>1, <1>2, <2>1, FS_CardinalityType
<1>5. PICK h : h = Cardinality(holding)
  OBVIOUS
<1>6. IsFiniteSet(holding) /\ h \in Nat /\ h <= C
  <2>1. IsFiniteSet(holding) /\ Cardinality(holding) <= Cardinality(1..C)
    BY <1>2, FS_Subset
  <2> QED
    BY <1>2, <1>5, <2>1, FS_CardinalityType
<1>7. CASE filters = <<>>
  <2>1. PICK stats : stats = PruningStats(file, filters)
    OBVIOUS
  <2>2. stats = <<C, 0, C>>
    BY <1>7, <2>1, Zenon DEF PruningStats
  <2>3. stats[1] = C /\ stats[2] = 0 /\ stats[3] = C
    BY <2>2
  <2> QED
    BY <1>5, <1>6, <2>1, <2>3
<1>8. CASE filters # <<>>
  <2>1. PICK stats : stats = PruningStats(file, filters)
    OBVIOUS
  <2>2. stats = <<C, C - k, k>>
    BY <1>1, <1>8, <2>1, Zenon DEF PruningStats
  <2>3. stats[1] = C /\ stats[2] = C - k /\ stats[3] = k
    BY <2>2
  <2>4. h <= k
    <3>1. holding \subseteq kept
      BY <1>1, <1>8
    <3>2. Cardinality(holding) <= Cardinality(kept)
      BY <1>4, <3>1, FS_Subset
    <3> QED
      BY <1>1, <1>5, <3>2
  <2> QED
    BY <1>4, <1>5, <1>6, <2>1, <2>3, <2>4
<1> QED
  BY <1>7, <1>8

\* Rows of flat columns, none of whose numbers is NaN, in row groups of some
\* size, and filters of the types of their columns.
PruningDomains ==
  /\ Len(Domains["groups"]) = 4 /\ NaN \notin Int
  /\ \E Row : Domains["groups"][1] \subseteq Seq(Row)
  /\ Domains["groups"][2] \subseteq (Nat \ {0}) \X BOOLEAN
  /\ \E Named, Type : \A rows \in Domains["groups"][1], filters \in Domains["groups"][3] :
       RowsFit(rows, filters, Named, Type)

\* The same rows backwards are rows.
LEMMA ReversedTyped ==
  ASSUME NEW Row, NEW rows \in Seq(Row)
  PROVE  Reverse(rows) \in Seq(Row)
<1>1. PICK N \in Nat : N = Len(rows)
  OBVIOUS
<1>2. PICK r : r = Reverse(rows)
  OBVIOUS
<1>3. r = [i \in 1..N |-> rows[(N - i) + 1]]
  BY <1>1, <1>2 DEF Reverse
<1>4. ASSUME NEW i \in 1..N PROVE rows[(N - i) + 1] \in Row
  <2>1. (N - i) + 1 \in 1..N
    OBVIOUS
  <2> QED
    BY <1>1, <2>1
<1>5. r \in [1..N -> Row]
  BY <1>3, <1>4
<1>6. r \in Seq(Row)
  BY <1>5
<1> QED
  BY <1>2, <1>6

\* What the arguments about row groups are.
LEMMA PruningGiven ==
  ASSUME PruningDomains, ArgumentsTyped, Given("groups")
  PROVE  /\ \E Row : input[1] \in Seq(Row)
         /\ \E size \in Nat \ {0} : \E statistics : input[2] = <<size, statistics>>
         /\ \E Named, Type : RowsFit(input[1], input[3], Named, Type)
<1>1. \A i \in 1..4 : input[i] \in Domains["groups"][i]
  BY ArgumentsGiven DEF PruningDomains
<1>2. input[1] \in Domains["groups"][1] /\ input[2] \in Domains["groups"][2] /\ input[3] \in Domains["groups"][3]
  <2>1. 1 \in 1..4 /\ 2 \in 1..4 /\ 3 \in 1..4
    OBVIOUS
  <2> QED
    BY <1>1, <2>1, Zenon
<1>3. PICK Row : Domains["groups"][1] \subseteq Seq(Row)
  BY Zenon DEF PruningDomains
<1>4. PICK layouts : layouts = Domains["groups"][2]
  OBVIOUS
<1>5. layouts \subseteq (Nat \ {0}) \X BOOLEAN
  BY <1>4, Zenon DEF PruningDomains
<1>6. \E size \in Nat \ {0} : \E statistics : input[2] = <<size, statistics>>
  BY <1>2, <1>4, <1>5
<1>7. PICK Named, Type : \A rows \in Domains["groups"][1], filters \in Domains["groups"][3] :
                           RowsFit(rows, filters, Named, Type)
  BY Zenon DEF PruningDomains
<1>8. RowsFit(input[1], input[3], Named, Type)
  BY <1>2, <1>7, Zenon
<1> QED
  BY <1>2, <1>3, <1>6, <1>8, Zenon

\* Pruning loses no row of any of them.
LEMMA PruningSound ==
  ASSUME PruningDomains, ArgumentsTyped
  PROVE  PruningLosesNoRow
<1>1. SUFFICES ASSUME Given("groups") PROVE PruningLosesNoRow
  BY Zenon DEF PruningLosesNoRow
<1>2. PICK rows, filters, columns : rows = input[1] /\ filters = input[3] /\ columns = input[4]
  OBVIOUS
<1>3. PICK Row : rows \in Seq(Row)
  BY <1>1, <1>2, PruningGiven
<1>4. PICK size \in Nat \ {0} : \E statistics : input[2] = <<size, statistics>>
  BY <1>1, PruningGiven
<1>15. PICK statistics : input[2] = <<size, statistics>>
  BY <1>4
<1>5. input[2][1] = size /\ input[2][2] = statistics
  BY <1>15
<1>6. PICK Named, Type : RowsFit(rows, filters, Named, Type)
  BY <1>1, <1>2, PruningGiven
<1>7. PICK file : file = Encode(rows, size, statistics)
  OBVIOUS
<1>8. FlattenSeq(DecodeBatch(EncodeBatch(<<rows, Reverse(rows)>>, size, statistics))) = rows \o Reverse(rows)
  <2>1. PICK back : back = Reverse(rows)
    OBVIOUS
  <2>2. back \in Seq(Row)
    BY <1>3, <2>1, ReversedTyped
  <2>3. FlattenSeq(DecodeBatch(EncodeBatch(<<rows, back>>, size, statistics))) = rows \o back
    BY <1>3, <2>2, DecodeTwo
  <2> QED
    BY <2>1, <2>3
<1>9. NaN \notin Int
  BY Zenon DEF PruningDomains
<1>10. PICK kept : kept = [i \in DOMAIN file.groups |->
                             IF i \in KeptGroups(file, filters) THEN file.groups[i] ELSE <<>>]
  OBVIOUS
<1>11. /\ Selected(FlattenSeq(kept), filters) = Selected(rows, filters)
       /\ \A i \in DOMAIN file.groups :
            Selected(file.groups[i], filters) # <<>> => i \in KeptGroups(file, filters)
  BY <1>3, <1>6, <1>7, <1>9, <1>10, FilteredRead
<1>12. DecodeWithFilter(file, filters, columns) = Project(Selected(rows, filters), columns)
  <2>1. CASE filters = <<>>
    <3>1. DecodeWithFilter(file, filters, columns) = DecodeColumns(file, columns)
      BY <2>1, Zenon DEF DecodeWithFilter
    <3>2. Decode(file) = rows
      BY <1>3, <1>7, DecodeEncoded
    <3>3. Selected(rows, filters) = rows
      BY <1>3, <2>1, AllSelected
    <3> QED
      BY <3>1, <3>2, <3>3 DEF DecodeColumns
  <2>2. CASE filters # <<>>
    <3>1. DecodeWithFilter(file, filters, columns) = Project(Selected(FlattenSeq(kept), filters), columns)
      BY <1>10, <2>2, Zenon DEF DecodeWithFilter
    <3> QED
      BY <1>11, <3>1
  <2> QED
    BY <2>1, <2>2
<1>13. PICK stats, holding :
         /\ stats = PruningStats(file, filters)
         /\ holding = {i \in DOMAIN file.groups : Selected(file.groups[i], filters) # <<>>}
  OBVIOUS
<1>14. stats[2] + stats[3] = stats[1] /\ stats[3] >= Cardinality(holding)
  <2>1. PICK C, groups : C = Ceiling(Len(rows), size) /\ groups = file.groups
    OBVIOUS
  <2>2. groups = [i \in 1..C |-> Piece(rows, size, i)]
    BY <1>3, <1>7, <2>1, EncodedFile
  <2>3. C \in Nat
    <3>1. PICK N \in Nat : N = Len(rows)
      BY <1>3
    <3> QED
      BY <2>1, <3>1, CeilingCovers
  <2>4. DOMAIN groups = 1..C /\ Len(groups) = C
    BY <2>2, <2>3
  <2>5. holding \subseteq DOMAIN file.groups /\ holding \subseteq KeptGroups(file, filters)
    BY <1>11, <1>13
  <2> QED
    BY <1>13, <2>1, <2>3, <2>4, <2>5, StatisticsAddUp
<1> QED
  BY <1>2, <1>5, <1>7, <1>8, <1>12, <1>13, <1>14, Zenon DEF PruningLosesNoRow

\* Pruning loses no row, for any rows of any columns, any layout of row groups
\* and any filters.
THEOREM PruningCorrect ==
  ASSUME PruningDomains
  PROVE  ArgumentsSpec => []PruningLosesNoRow
<1>1. ASSUME ArgumentsTyped PROVE PruningLosesNoRow
  BY <1>1, PruningSound
<1> QED
  BY <1>1, ArgumentsCorrect, PTL

-----------------------------------------------------------------------------
(* Elements at some of the places of a list                                 *)

\* Those of the first m places.
FirstAt(s, places, m) == At(s, places \cap (1..m))

\* They come one at a time, place by place.
GrowsAt(S, s, places, N) ==
  /\ \A m \in 0..N : FirstAt(s, places, m) \in Seq(S)
  /\ FirstAt(s, places, 0) = <<>>
  /\ \A m \in 1..N :
       FirstAt(s, places, m) = IF m \in places THEN FirstAt(s, places, m - 1) \o <<s[m]>>
                                               ELSE FirstAt(s, places, m - 1)
  /\ At(s, places) = FirstAt(s, places, N)

Single(s, places, i) == IF i \in places THEN <<s[i]>> ELSE <<>>

\* What was collected after each place.
Collects(S, s, places, N, f) ==
  /\ f \in [0..N -> Seq(S)] /\ f[0] = <<>>
  /\ \A i \in 1..N : f[i] = f[i - 1] \o Single(s, places, i)

\* Collecting elements goes on to the last.
LEMMA AtHas ==
  ASSUME NEW S, NEW s \in Seq(S), NEW N, N = Len(s), NEW places
  PROVE  \E f : Collects(S, s, places, N, f)
<1>1. N \in Nat
  OBVIOUS
<1>2. PICK q : q = [i \in 1..N |-> Single(s, places, i)]
  OBVIOUS
<1>3. ASSUME NEW i \in 1..N PROVE Single(s, places, i) \in Seq(S)
  <2>1. <<s[i]>> \in Seq(S) /\ <<>> \in Seq(S)
    OBVIOUS
  <2> QED
    BY <2>1 DEF Single
<1>4. q \in [1..N -> Seq(S)]
  BY <1>2, <1>3
<1>5. PICK f : Appended(Seq(S), N, q, f)
  BY <1>1, <1>4, FlattenHas
<1> QED
  BY <1>2, <1>5 DEF Appended, Collects

\* What At gives is all that was collected.
LEMMA AtIs ==
  ASSUME NEW S, NEW s \in Seq(S), NEW N, N = Len(s), NEW places,
         NEW f, Collects(S, s, places, N, f)
  PROVE  At(s, places) = f[N]
<1>1. N \in Nat /\ DOMAIN s = 1..N
  OBVIOUS
<1>2. PICK q : q = [i \in 1..N |-> Single(s, places, i)]
  OBVIOUS
<1>3. ASSUME NEW i \in 1..N PROVE Single(s, places, i) \in Seq(S)
  <2>1. <<s[i]>> \in Seq(S) /\ <<>> \in Seq(S)
    OBVIOUS
  <2> QED
    BY <2>1 DEF Single
<1>4. q \in [1..N -> Seq(S)]
  BY <1>2, <1>3
<1>5. Appended(Seq(S), N, q, f)
  BY <1>2 DEF Appended, Collects
<1>6. FlattenSeq(q) = f[N]
  BY <1>1, <1>4, <1>5, FlattenIs
<1>7. At(s, places) = FlattenSeq(q)
  BY <1>1, <1>2 DEF At, Single
<1> QED
  BY <1>6, <1>7

\* What was collected up to a place.
LEMMA FirstIs ==
  ASSUME NEW S, NEW s \in Seq(S), NEW N, N = Len(s), NEW places,
         NEW f, Collects(S, s, places, N, f),
         NEW m \in 0..N
  PROVE  FirstAt(s, places, m) = f[m]
<1> USE DEF Collects
<1>1. N \in Nat
  OBVIOUS
<1>2. PICK g : g = [i \in 0..N |-> IF i <= m THEN f[i] ELSE f[m]]
  OBVIOUS
<1>3. PICK K : K = places \cap (1..m)
  OBVIOUS
<1>4. g \in [0..N -> Seq(S)]
  BY <1>2
<1>5. g[0] = <<>> /\ g[N] = f[m]
  <2>1. g[0] = f[0]
    BY <1>1, <1>2
  <2>2. g[N] = f[m]
    <3>1. CASE N <= m
      BY <1>1, <1>2, <3>1
    <3>2. CASE ~(N <= m)
      BY <1>1, <1>2, <3>2
    <3> QED
      BY <3>1, <3>2
  <2> QED
    BY <2>1, <2>2
<1>6. ASSUME NEW i \in 1..N PROVE g[i] = g[i - 1] \o Single(s, K, i)
  <2>1. i \in 0..N /\ i - 1 \in 0..N
    BY <1>1
  <2>2. CASE i <= m
    <3>1. g[i] = f[i] /\ g[i - 1] = f[i - 1]
      BY <1>1, <1>2, <2>1, <2>2
    <3>2. i \in K <=> i \in places
      BY <1>3, <2>2
    <3>3. Single(s, K, i) = Single(s, places, i)
      BY <3>2 DEF Single
    <3> QED
      BY <3>1, <3>3
  <2>3. CASE ~(i <= m)
    <3>1. g[i] = f[m] /\ g[i - 1] = f[m]
      <4>1. g[i] = f[m]
        BY <1>2, <2>1, <2>3
      <4>2. i - 1 <= m => i - 1 = m
        BY <1>1, <2>3
      <4> QED
        BY <1>2, <2>1, <4>1, <4>2
    <3>2. Single(s, K, i) = <<>>
      BY <1>3, <2>3 DEF Single
    <3>3. f[m] \in Seq(S)
      OBVIOUS
    <3>4. f[m] \o <<>> = f[m]
      BY <3>3
    <3> QED
      BY <3>1, <3>2, <3>4
  <2> QED
    BY <2>2, <2>3
<1>7. At(s, K) = g[N]
  <2>1. Collects(S, s, K, N, g)
    BY <1>4, <1>5, <1>6
  <2> HIDE DEF Collects
  <2> QED
    BY <2>1, AtIs
<1> QED
  BY <1>3, <1>5, <1>7 DEF FirstAt

\* Up to each place there is one element more, or the same.
LEMMA ElementsGrow ==
  ASSUME NEW S, NEW s \in Seq(S), NEW N, N = Len(s), NEW places
  PROVE  GrowsAt(S, s, places, N)
<1>1. N \in Nat
  OBVIOUS
<1>2. PICK f : Collects(S, s, places, N, f)
  BY AtHas
<1>3. \A m \in 0..N : FirstAt(s, places, m) = f[m]
  BY <1>2, FirstIs
<1>4. At(s, places) = f[N]
  BY <1>2, AtIs
<1>5. ASSUME NEW m \in 1..N
      PROVE  FirstAt(s, places, m) = IF m \in places THEN FirstAt(s, places, m - 1) \o <<s[m]>>
                                                     ELSE FirstAt(s, places, m - 1)
  <2>1. m \in 0..N /\ m - 1 \in 0..N
    BY <1>1
  <2>2. PICK a : a = f[m - 1]
    OBVIOUS
  <2>3. a \in Seq(S) /\ a = FirstAt(s, places, m - 1)
    BY <1>2, <1>3, <2>1, <2>2 DEF Collects
  <2>4. FirstAt(s, places, m) = a \o Single(s, places, m)
    BY <1>2, <1>3, <2>1, <2>2 DEF Collects
  <2>5. a \o <<>> = a
    BY <2>3
  <2>6. CASE m \in places
    BY <2>3, <2>4, <2>6 DEF Single
  <2>7. CASE m \notin places
    <3>1. Single(s, places, m) = <<>>
      BY <2>7 DEF Single
    <3> QED
      BY <2>3, <2>4, <2>5, <2>7, <3>1
  <2> QED
    BY <2>6, <2>7
<1>6. \A m \in 0..N : FirstAt(s, places, m) \in Seq(S)
  BY <1>2, <1>3 DEF Collects
<1>7. FirstAt(s, places, 0) = <<>> /\ At(s, places) = FirstAt(s, places, N)
  BY <1>1, <1>2, <1>3, <1>4 DEF Collects
<1> QED
  BY <1>5, <1>6, <1>7 DEF GrowsAt

\* Every place: the list itself.
LEMMA AtEveryPlace ==
  ASSUME NEW S, NEW s \in Seq(S), NEW places, 1..Len(s) \subseteq places
  PROVE  At(s, places) = s
<1>1. PICK N \in Nat : N = Len(s)
  OBVIOUS
<1>2. GrowsAt(S, s, places, N)
  BY <1>1, ElementsGrow
<1> DEFINE G == {m \in 0..N : FirstAt(s, places, m) = SubSeq(s, 1, m)}
<1>3. 0 \in G
  <2>1. SubSeq(s, 1, 0) = <<>>
    BY SubSeqEmpty
  <2> QED
    BY <1>2, <2>1 DEF GrowsAt
<1>4. ASSUME NEW m \in 1..N, m - 1 \in G PROVE m \in G
  <2>1. m \in places
    BY <1>1
  <2>2. FirstAt(s, places, m) = FirstAt(s, places, m - 1) \o <<s[m]>>
    BY <1>2, <2>1 DEF GrowsAt
  <2>3. 1 \in 1..Len(s) /\ m \in 1..Len(s)
    BY <1>1
  <2>4. SubSeq(s, 1, m) = SubSeq(s, 1, m - 1) \o <<s[m]>>
    BY <2>3, SubSeqRecursiveSecond
  <2>5. FirstAt(s, places, m - 1) = SubSeq(s, 1, m - 1)
    BY <1>4
  <2> QED
    BY <2>2, <2>4, <2>5
<1>5. N \in G
  <2> HIDE DEF G
  <2>1. \A m \in 1..N : m - 1 \in G => m \in G
    BY <1>4
  <2>2. 0..N \subseteq G
    BY <1>3, <2>1, NaturalSteps
  <2> QED
    BY <2>2
<1>6. At(s, places) = SubSeq(s, 1, N)
  BY <1>2, <1>5 DEF GrowsAt
<1> QED
  BY <1>1, <1>6, SubSeqFull

\* No place: nothing.
LEMMA AtNoPlace ==
  ASSUME NEW S, NEW s \in Seq(S), NEW places, NEW m, places \cap (1..m) = {}
  PROVE  FirstAt(s, places, m) = <<>>
<1>1. PICK N \in Nat : N = Len(s)
  OBVIOUS
<1>2. GrowsAt(S, s, {}, N)
  BY <1>1, ElementsGrow
<1>3. FirstAt(s, {}, 0) = <<>>
  BY <1>2 DEF GrowsAt
<1>4. places \cap (1..m) = {} \cap (1..0)
  OBVIOUS
<1> QED
  BY <1>3, <1>4 DEF FirstAt

\* What comes later is appended to what came first.
Continues(s, places, rest, m, n) ==
  FirstAt(s, places, m) \o FirstAt(s, rest, n) = FirstAt(s, places, n)

\* Elements at later places follow those at earlier ones.
LEMMA LaterContinue ==
  ASSUME NEW S, NEW s \in Seq(S), NEW places, NEW m \in 0..Len(s), NEW n \in m..Len(s), NEW rest,
         \A i \in 1..n : i \in rest <=> i \in places /\ i > m
  PROVE  Continues(s, places, rest, m, n)
<1>1. PICK N \in Nat : N = Len(s)
  OBVIOUS
<1>2. m \in 0..N /\ n \in 0..N /\ m <= n
  BY <1>1
<1>3. GrowsAt(S, s, places, N) /\ GrowsAt(S, s, rest, N)
  BY <1>1, ElementsGrow
<1>4. PICK a : a = FirstAt(s, places, m)
  OBVIOUS
<1>5. a \in Seq(S)
  BY <1>2, <1>3, <1>4 DEF GrowsAt
<1> DEFINE G == {k \in 0..n : IF k <= m THEN FirstAt(s, rest, k) = <<>>
                                        ELSE a \o FirstAt(s, rest, k) = FirstAt(s, places, k)}
<1>6. 0 \in G
  BY <1>2, <1>3 DEF GrowsAt
<1>7. ASSUME NEW k \in 1..n, k - 1 \in G PROVE k \in G
  <2>1. k \in 1..N /\ k - 1 \in 0..N
    BY <1>2
  <2>2. PICK b, c, d : b = FirstAt(s, rest, k - 1) /\ c = FirstAt(s, places, k - 1) /\ d = s[k]
    OBVIOUS
  <2>3. b \in Seq(S) /\ c \in Seq(S) /\ d \in S
    BY <1>1, <1>3, <2>1, <2>2 DEF GrowsAt
  <2>4. FirstAt(s, rest, k) = IF k \in rest THEN b \o <<d>> ELSE b
    BY <1>3, <2>1, <2>2 DEF GrowsAt
  <2>5. FirstAt(s, places, k) = IF k \in places THEN c \o <<d>> ELSE c
    BY <1>3, <2>1, <2>2 DEF GrowsAt
  <2>6. k \in rest <=> k \in places /\ k > m
    OBVIOUS
  <2>7. CASE k <= m
    <3>1. k - 1 <= m
      BY <1>2, <2>7
    <3>2. b = <<>>
      BY <1>7, <2>2, <3>1
    <3>3. k \notin rest
      BY <1>2, <2>6, <2>7
    <3> QED
      BY <2>4, <2>7, <3>2, <3>3
  <2>8. CASE ~(k <= m)
    <3>1. a \o b = c
      <4>1. CASE k - 1 <= m
        <5>1. k - 1 = m
          BY <1>2, <2>8, <4>1
        <5>2. b = <<>> /\ c = a
          BY <1>4, <1>7, <2>2, <5>1
        <5>3. a \o <<>> = a
          BY <1>5
        <5> QED
          BY <5>2, <5>3
      <4>2. CASE ~(k - 1 <= m)
        BY <1>7, <2>2, <4>2
      <4> QED
        BY <4>1, <4>2
    <3>2. k > m
      BY <1>2, <2>8
    <3>3. a \o (b \o <<d>>) = (a \o b) \o <<d>>
      <4>1. PICK one : one = <<d>>
        OBVIOUS
      <4>2. one \in Seq(S)
        BY <2>3, <4>1
      <4>3. Associates(a, b, one)
        BY <1>5, <2>3, <4>2, AppendingAssociates
      <4> QED
        BY <4>1, <4>3 DEF Associates
    <3>4. a \o FirstAt(s, rest, k) = FirstAt(s, places, k)
      <4>1. CASE k \in places
        BY <2>4, <2>5, <2>6, <3>1, <3>2, <3>3, <4>1
      <4>2. CASE k \notin places
        BY <2>4, <2>5, <2>6, <3>1, <4>2
      <4> QED
        BY <4>1, <4>2
    <3> QED
      BY <2>8, <3>4
  <2> QED
    BY <2>7, <2>8
<1>8. n \in G
  <2> HIDE DEF G
  <2>1. \A k \in 1..n : k - 1 \in G => k \in G
    BY <1>7
  <2>2. n \in Nat
    BY <1>2
  <2>3. 0..n \subseteq G
    BY <1>6, <2>1, <2>2, NaturalSteps
  <2> QED
    BY <2>2, <2>3
<1>9. CASE n <= m
  <2>1. n = m
    BY <1>2, <1>9
  <2>2. FirstAt(s, rest, n) = <<>>
    BY <1>8, <1>9
  <2>3. a \o <<>> = a
    BY <1>5
  <2> QED
    BY <1>4, <2>1, <2>2, <2>3 DEF Continues
<1>10. CASE ~(n <= m)
  BY <1>4, <1>8, <1>10 DEF Continues
<1> QED
  BY <1>9, <1>10

\* The last of what there is, is at the last of the places.
LastAt(s, places, m, l) ==
  /\ l \in places \cap (1..m) /\ \A i \in places \cap (1..m) : i <= l
  /\ FirstAt(s, places, m)[Len(FirstAt(s, places, m))] = s[l]

HasLast(s, places, m) ==
  IF FirstAt(s, places, m) = <<>> THEN places \cap (1..m) = {} ELSE \E l : LastAt(s, places, m, l)

\* The last of the elements up to a place, if there are any.
LEMMA LastIsAt ==
  ASSUME NEW S, NEW s \in Seq(S), NEW places, NEW m \in 0..Len(s)
  PROVE  HasLast(s, places, m)
<1>1. PICK N \in Nat : N = Len(s)
  OBVIOUS
<1>2. GrowsAt(S, s, places, N)
  BY <1>1, ElementsGrow
<1> DEFINE G == {k \in 0..N : HasLast(s, places, k)}
<1>3. 0 \in G
  BY <1>2 DEF GrowsAt, HasLast
<1>4. ASSUME NEW k \in 1..N, k - 1 \in G PROVE k \in G
  <2>1. PICK a, b, d : a = FirstAt(s, places, k - 1) /\ b = FirstAt(s, places, k) /\ d = s[k]
    OBVIOUS
  <2>2. a \in Seq(S) /\ d \in S
    <3>1. k - 1 \in 0..N
      OBVIOUS
    <3> QED
      BY <1>1, <1>2, <2>1, <3>1 DEF GrowsAt
  <2>3. b = IF k \in places THEN a \o <<d>> ELSE a
    BY <1>2, <2>1 DEF GrowsAt
  <2>4. CASE k \in places
    <3>1. b = a \o <<d>>
      BY <2>3, <2>4
    <3>2. b # <<>> /\ b[Len(b)] = d
      BY <2>2, <3>1
    <3>3. k \in places \cap (1..k) /\ \A i \in places \cap (1..k) : i <= k
      BY <2>4
    <3>4. LastAt(s, places, k, k)
      BY <2>1, <3>2, <3>3 DEF LastAt
    <3> QED
      BY <2>1, <3>2, <3>4 DEF HasLast
  <2>5. CASE k \notin places
    <3>1. b = a
      BY <2>3, <2>5
    <3>2. places \cap (1..k) = places \cap (1..(k - 1))
      <4>1. \A i \in 1..k : i # k => i \in 1..(k - 1)
        OBVIOUS
      <4>2. \A i \in 1..(k - 1) : i \in 1..k
        OBVIOUS
      <4> QED
        BY <2>5, <4>1, <4>2
    <3>3. HasLast(s, places, k - 1)
      BY <1>4
    <3>4. \A l : LastAt(s, places, k - 1, l) => LastAt(s, places, k, l)
      BY <2>1, <3>1, <3>2 DEF LastAt
    <3>5. CASE a = <<>>
      <4>1. places \cap (1..k) = {}
        BY <2>1, <3>2, <3>3, <3>5 DEF HasLast
      <4>2. HasLast(s, places, k)
        BY <2>1, <3>1, <3>5, <4>1 DEF HasLast
      <4> QED
        BY <4>2
    <3>6. CASE a # <<>>
      <4>1. \E l : LastAt(s, places, k - 1, l)
        BY <2>1, <3>3, <3>6 DEF HasLast
      <4>2. \E l : LastAt(s, places, k, l)
        BY <3>4, <4>1, Zenon
      <4> QED
        <5>1. FirstAt(s, places, k) # <<>>
          BY <2>1, <3>1, <3>6
        <5>2. HasLast(s, places, k)
          BY <4>2, <5>1, Zenon DEF HasLast
        <5> QED
          BY <5>2
    <3> QED
      BY <3>5, <3>6
  <2> QED
    BY <2>4, <2>5
<1>5. m \in G
  <2> HIDE DEF G
  <2>1. \A k \in 1..N : k - 1 \in G => k \in G
    BY <1>4
  <2>2. 0..N \subseteq G
    BY <1>3, <2>1, NaturalSteps
  <2> QED
    BY <1>1, <2>2
<1> QED
  BY <1>5

\* Lists whose elements have the same identifiers have the same at any places.
LEMMA SameIdsAt ==
  ASSUME NEW S, NEW s \in Seq(S), NEW T, NEW t \in Seq(T), Len(s) = Len(t),
         \A i \in 1..Len(s) : s[i].txId = t[i].txId, NEW places
  PROVE  Ids(At(s, places)) = Ids(At(t, places))
<1>1. PICK N \in Nat : N = Len(s)
  OBVIOUS
<1>2. GrowsAt(S, s, places, N) /\ GrowsAt(T, t, places, N)
  BY <1>1, ElementsGrow
<1> DEFINE Same(a, b) == Len(a) = Len(b) /\ \A i \in 1..Len(a) : a[i].txId = b[i].txId
           G == {k \in 0..N : Same(FirstAt(s, places, k), FirstAt(t, places, k))}
<1>3. 0 \in G
  BY <1>2 DEF GrowsAt
<1>4. ASSUME NEW k \in 1..N, k - 1 \in G PROVE k \in G
  <2>1. PICK a, b, c, d : /\ a = FirstAt(s, places, k - 1) /\ b = FirstAt(t, places, k - 1)
                          /\ c = s[k] /\ d = t[k]
    OBVIOUS
  <2>2. a \in Seq(S) /\ b \in Seq(T) /\ c \in S /\ d \in T /\ c.txId = d.txId
    <3>1. k - 1 \in 0..N
      OBVIOUS
    <3> QED
      BY <1>1, <1>2, <2>1, <3>1 DEF GrowsAt
  <2>3. Same(a, b)
    BY <1>4, <2>1
  <2>4. /\ FirstAt(s, places, k) = IF k \in places THEN a \o <<c>> ELSE a
        /\ FirstAt(t, places, k) = IF k \in places THEN b \o <<d>> ELSE b
    BY <1>2, <2>1 DEF GrowsAt
  <2>5. Same(a \o <<c>>, b \o <<d>>)
    <3>1. PICK L \in Nat : L = Len(a) /\ L = Len(b)
      BY <2>2, <2>3
    <3>2. PICK e, f : e = a \o <<c>> /\ f = b \o <<d>>
      OBVIOUS
    <3>3. Len(e) = L + 1 /\ (\A i \in 1..L : e[i] = a[i]) /\ e[L + 1] = c
      <4>1. a \in Seq(S) /\ c \in S /\ L = Len(a) /\ e = a \o <<c>>
        BY <2>2, <3>1, <3>2
      <4> QED
        BY <4>1
    <3>4. Len(f) = L + 1 /\ (\A i \in 1..L : f[i] = b[i]) /\ f[L + 1] = d
      <4>1. b \in Seq(T) /\ d \in T /\ L = Len(b) /\ f = b \o <<d>>
        BY <2>2, <3>1, <3>2
      <4> QED
        BY <4>1
    <3>5. \A i \in 1..(L + 1) : e[i].txId = f[i].txId
      <4>1. ASSUME NEW i \in 1..(L + 1) PROVE e[i].txId = f[i].txId
        <5>1. CASE i = L + 1
          BY <2>2, <3>3, <3>4, <5>1
        <5>2. CASE i # L + 1
          <6>1. i \in 1..L
            BY <5>2
          <6> QED
            BY <2>3, <3>1, <3>3, <3>4, <6>1
        <5> QED
          BY <5>1, <5>2
      <4> QED
        BY <4>1
    <3> QED
      BY <3>2, <3>3, <3>4, <3>5
  <2>6. CASE k \in places
    <3>1. FirstAt(s, places, k) = a \o <<c>> /\ FirstAt(t, places, k) = b \o <<d>>
      BY <2>4, <2>6
    <3> HIDE DEF Same
    <3>2. Same(FirstAt(s, places, k), FirstAt(t, places, k))
      BY <2>5, <3>1
    <3> QED
      BY <3>2
  <2>7. CASE k \notin places
    BY <2>3, <2>4, <2>7
  <2> QED
    BY <2>6, <2>7
<1>5. N \in G
  <2> HIDE DEF G
  <2>1. \A k \in 1..N : k - 1 \in G => k \in G
    BY <1>4
  <2>2. 0..N \subseteq G
    BY <1>3, <2>1, NaturalSteps
  <2> QED
    BY <2>2
<1>6. PICK a, b : a = At(s, places) /\ b = At(t, places)
  OBVIOUS
<1>7. a \in Seq(S) /\ b \in Seq(T) /\ Same(a, b)
  <2>1. a = FirstAt(s, places, N) /\ b = FirstAt(t, places, N)
    BY <1>2, <1>6 DEF GrowsAt
  <2>2. a \in Seq(S) /\ b \in Seq(T)
    BY <1>2, <2>1 DEF GrowsAt
  <2> QED
    BY <1>5, <2>1, <2>2
<1>8. DOMAIN a = 1..Len(a) /\ DOMAIN b = 1..Len(a)
  BY <1>7
<1>9. Ids(a) = Ids(b)
  BY <1>7, <1>8 DEF Ids
<1> QED
  BY <1>6, <1>9

-----------------------------------------------------------------------------
(* The changelog                                                            *)

\* What was found after each of N transactions.
Visits(log, q, N, f) ==
  /\ f = [i \in 0..N |-> f[i]] /\ f[0] = Unvisited
  /\ \A i \in 1..N : f[i] = Visit(f[i - 1], log[i], q)

\* Visiting transactions goes on to the last.
LEMMA VisitsHas ==
  ASSUME NEW log, NEW q, NEW N \in Nat
  PROVE  \E f : Visits(log, q, N, f)
<1> DEFINE G == {k \in 0..N : \E f : Visits(log, q, k, f)}
<1>1. 0 \in G
  <2>1. PICK f : f = [i \in 0..0 |-> Unvisited]
    OBVIOUS
  <2>2. Visits(log, q, 0, f)
    <3>1. f[0] = Unvisited /\ f = [i \in 0..0 |-> f[i]]
      BY <2>1
    <3>2. \A i \in 1..0 : f[i] = Visit(f[i - 1], log[i], q)
      OBVIOUS
    <3> QED
      BY <3>1, <3>2 DEF Visits
  <2> QED
    BY <2>2
<1>2. ASSUME NEW k \in 1..N, k - 1 \in G PROVE k \in G
  <2>1. PICK f : Visits(log, q, k - 1, f)
    BY <1>2
  <2>2. PICK found : found = Visit(f[k - 1], log[k], q)
    OBVIOUS
  <2>3. PICK g : g = [i \in 0..k |-> IF i = k THEN found ELSE f[i]]
    OBVIOUS
  <2>4. g = [i \in 0..k |-> g[i]]
    BY <2>3
  <2>5. g[0] = Unvisited
    BY <2>1, <2>3 DEF Visits
  <2>6. ASSUME NEW i \in 1..k PROVE g[i] = Visit(g[i - 1], log[i], q)
    <3>1. g[i - 1] = f[i - 1]
      BY <2>3
    <3>2. CASE i = k
      BY <2>2, <2>3, <3>1, <3>2
    <3>3. CASE i # k
      <4>1. i \in 1..(k - 1)
        BY <3>3
      <4>2. f[i] = Visit(f[i - 1], log[i], q)
        BY <2>1, <4>1 DEF Visits
      <4>3. g[i] = f[i]
        BY <2>3, <3>3
      <4> QED
        BY <3>1, <4>2, <4>3
    <3> QED
      BY <3>2, <3>3
  <2>7. Visits(log, q, k, g)
    BY <2>4, <2>5, <2>6 DEF Visits
  <2> QED
    BY <2>7
<1>3. N \in G
  <2> HIDE DEF G
  <2>1. \A k \in 1..N : k - 1 \in G => k \in G
    BY <1>2
  <2>2. 0..N \subseteq G
    BY <1>1, <2>1, NaturalSteps
  <2> QED
    BY <2>2
<1> QED
  BY <1>3

\* What get_changelog answers is what the visits found.
LEMMA ChangelogIs ==
  ASSUME NEW log, NEW q, NEW N \in Nat, N = Len(log), NEW f, Visits(log, q, N, f)
  PROVE  GetChangelog(log, q) = f[N].entries
<1> DEFINE visited[i \in 0..N] == IF i = 0 THEN Unvisited ELSE Visit(visited[i - 1], log[i], q)
<1>1. GetChangelog(log, q) = visited[N].entries
  BY Zenon DEF GetChangelog
<1>2. f = [i \in 0..N |-> IF i = 0 THEN Unvisited ELSE Visit(f[i - 1], log[i], q)]
  <2>1. ASSUME NEW i \in 0..N PROVE f[i] = IF i = 0 THEN Unvisited ELSE Visit(f[i - 1], log[i], q)
    <3>1. i # 0 => i \in 1..N
      OBVIOUS
    <3> QED
      BY <3>1 DEF Visits
  <2>2. f = [i \in 0..N |-> f[i]]
    BY DEF Visits
  <2> QED
    BY <2>1, <2>2
<1>3. visited = [i \in 0..N |-> IF i = 0 THEN Unvisited ELSE Visit(visited[i - 1], log[i], q)]
  BY <1>2, Zenon
<1> HIDE DEF visited
<1> DEFINE G == {k \in 0..N : visited[k] = f[k]}
<1>4. 0 \in G
  BY <1>3 DEF Visits
<1>5. ASSUME NEW k \in 1..N, k - 1 \in G PROVE k \in G
  <2>1. visited[k] = Visit(visited[k - 1], log[k], q)
    BY <1>3
  <2>2. f[k] = Visit(f[k - 1], log[k], q)
    BY DEF Visits
  <2> QED
    BY <1>5, <2>1, <2>2
<1>6. N \in G
  <2> HIDE DEF G
  <2>1. \A k \in 1..N : k - 1 \in G => k \in G
    BY <1>5
  <2>2. 0..N \subseteq G
    BY <1>4, <2>1, NaturalSteps
  <2> QED
    BY <2>2
<1> QED
  BY <1>1, <1>6

\* One turn of the loop.
TurnOf(found, tx, q, r) ==
  IF found.full THEN r = found
  ELSE /\ r.previous = TrackVersions(found.previous, tx)
       /\ IF Included(tx, q)
          THEN /\ r.entries = Append(found.entries, FromTransaction(tx, found.previous))
               /\ r.full <=> \E n \in q.limit : Len(r.entries) >= n
          ELSE r.entries = found.entries /\ ~r.full

\* What one visit does.
LEMMA VisitTurns ==
  ASSUME NEW found, NEW tx, NEW q
  PROVE  TurnOf(found, tx, q, Visit(found, tx, q))
<1>1. PICK r : r = Visit(found, tx, q)
  OBVIOUS
<1>2. CASE found.full
  <2>1. r = found
    BY <1>1, <1>2, Zenon DEF Visit
  <2> QED
    BY <1>1, <1>2, <2>1 DEF TurnOf
<1>3. CASE ~found.full
  <2>1. PICK entry : entry = FromTransaction(tx, found.previous)
    OBVIOUS
  <2>2. PICK entries : entries = IF Included(tx, q) THEN Append(found.entries, entry) ELSE found.entries
    OBVIOUS
  <2>3. r = [entries |-> entries, previous |-> TrackVersions(found.previous, tx),
             full |-> Included(tx, q) /\ \E n \in q.limit : Len(entries) >= n]
    BY <1>1, <1>3, <2>1, <2>2, Zenon DEF Visit
  <2>4. r.entries = entries /\ r.previous = TrackVersions(found.previous, tx)
    BY <2>3, Zenon
  <2>5. r.full <=> Included(tx, q) /\ \E n \in q.limit : Len(entries) >= n
    BY <2>3, Zenon
  <2>6. CASE Included(tx, q)
    <3>1. entries = Append(found.entries, entry)
      BY <2>2, <2>6
    <3> QED
      BY <1>1, <1>3, <2>1, <2>4, <2>5, <2>6, <3>1, Zenon DEF TurnOf
  <2>7. CASE ~Included(tx, q)
    <3>1. entries = found.entries
      BY <2>2, <2>7
    <3> QED
      BY <1>1, <1>3, <2>4, <2>5, <2>7, <3>1, Zenon DEF TurnOf
  <2> QED
    BY <2>6, <2>7
<1> QED
  BY <1>2, <1>3

\* A query of a few entries at most, or of any number.
IsLimit(limit) == limit \subseteq Nat \ {0} /\ \A m, n \in limit : m = n

\* The transactions a query asks for, and the entries of all of them.
Wanted(log, q) == {i \in DOMAIN log : Included(log[i], q)}
IsHistory(log, N, S, all, g) ==
  /\ Visits(log, Everything, N, g) /\ all \in Seq(S) /\ Len(all) = N
  /\ \A i \in 1..N : all[i] = FromTransaction(log[i], g[i - 1].previous)

\* Nothing is left out of all of it.
LEMMA EverythingWanted ==
  ASSUME NEW tx
  PROVE  Included(tx, Everything)
BY DEF Included, Skipped, Everything

\* There is a history of every log.
LEMMA HistoryHas ==
  ASSUME NEW log, NEW N \in Nat
  PROVE  \E S, all, g : IsHistory(log, N, S, all, g)
<1>1. PICK g : Visits(log, Everything, N, g)
  BY VisitsHas
<1>2. PICK all : all = [i \in 1..N |-> FromTransaction(log[i], g[i - 1].previous)]
  OBVIOUS
<1>3. PICK S : S = {all[i] : i \in 1..N}
  OBVIOUS
<1>4. all \in [1..N -> S]
  BY <1>2, <1>3
<1>5. all \in Seq(S) /\ Len(all) = N
  BY <1>4
<1>6. \A i \in 1..N : all[i] = FromTransaction(log[i], g[i - 1].previous)
  BY <1>2
<1>7. IsHistory(log, N, S, all, g)
  BY <1>1, <1>5, <1>6 DEF IsHistory
<1> QED
  BY <1>7

\* A run that asks for everything reaches the end and keeps track of the versions.
LEMMA HistoryGoesOn ==
  ASSUME NEW log, NEW N \in Nat, NEW S, NEW all, NEW g, IsHistory(log, N, S, all, g)
  PROVE  /\ ~g[0].full /\ g[0].previous = Unvisited.previous
         /\ \A i \in 1..N : ~g[i].full /\ g[i].previous = TrackVersions(g[i - 1].previous, log[i])
<1>1. Visits(log, Everything, N, g)
  BY DEF IsHistory
<1>2. g[0] = Unvisited /\ ~Unvisited.full
  BY <1>1 DEF Visits, Unvisited
<1> DEFINE G == {i \in 0..N : ~g[i].full}
<1>3. 0 \in G
  BY <1>2
<1>4. ASSUME NEW i \in 1..N, ~g[i - 1].full
      PROVE  ~g[i].full /\ g[i].previous = TrackVersions(g[i - 1].previous, log[i])
  <2>1. TurnOf(g[i - 1], log[i], Everything, g[i])
    <3>1. g[i] = Visit(g[i - 1], log[i], Everything)
      BY <1>1 DEF Visits
    <3> QED
      BY <3>1, VisitTurns
  <2>2. Included(log[i], Everything)
    BY EverythingWanted
  <2>3. Everything.limit = {}
    BY DEF Everything
  <2> QED
    BY <1>4, <2>1, <2>2, <2>3 DEF TurnOf
<1>5. ASSUME NEW i \in 1..N, i - 1 \in G PROVE i \in G
  BY <1>4, <1>5
<1>6. 0..N \subseteq G
  <2> HIDE DEF G
  <2>1. \A i \in 1..N : i - 1 \in G => i \in G
    BY <1>5
  <2> QED
    BY <1>3, <2>1, NaturalSteps
<1>7. ASSUME NEW i \in 1..N PROVE ~g[i - 1].full
  <2>1. i - 1 \in 0..N
    OBVIOUS
  <2> QED
    BY <1>6, <2>1
<1> QED
  BY <1>2, <1>4, <1>7

\* How far a run has come after i transactions.
RunsTo(all, wanted, q, f, g, i, m) ==
  /\ m \in 0..i /\ f[i].entries = FirstAt(all, wanted, m)
  /\ IF f[i].full
     THEN m \in wanted /\ \E n \in q.limit : Len(f[i].entries) = n
     ELSE m = i /\ f[i].previous = g[i].previous /\ \A n \in q.limit : Len(f[i].entries) < n

\* Visits find what is wanted up to a place: the last or that of the limit.
LEMMA RunGoes ==
  ASSUME NEW log, NEW N \in Nat, DOMAIN log = 1..N, NEW S, NEW all, NEW g, IsHistory(log, N, S, all, g),
         NEW q, IsLimit(q.limit), NEW f, Visits(log, q, N, f)
  PROVE  \E m : RunsTo(all, Wanted(log, q), q, f, g, N, m)
<1>1. PICK wanted : wanted = Wanted(log, q)
  OBVIOUS
<1>2. all \in Seq(S) /\ N = Len(all)
  BY DEF IsHistory
<1>3. GrowsAt(S, all, wanted, N)
  BY <1>2, ElementsGrow
<1> DEFINE G == {i \in 0..N : \E m : RunsTo(all, wanted, q, f, g, i, m)}
<1>4. 0 \in G
  <2>1. f[0] = Unvisited /\ g[0].previous = Unvisited.previous
    BY HistoryGoesOn DEF Visits
  <2>2. f[0].entries = <<>> /\ ~f[0].full /\ f[0].previous = g[0].previous
    BY <2>1 DEF Unvisited
  <2>3. FirstAt(all, wanted, 0) = <<>>
    BY <1>3 DEF GrowsAt
  <2>4. \A n \in q.limit : Len(f[0].entries) < n
    <3>1. Len(f[0].entries) = 0
      BY <2>2
    <3> QED
      BY <3>1 DEF IsLimit
  <2>5. RunsTo(all, wanted, q, f, g, 0, 0)
    BY <2>2, <2>3, <2>4 DEF RunsTo
  <2> QED
    BY <2>5
<1>5. ASSUME NEW i \in 1..N, i - 1 \in G PROVE i \in G
  <2>1. PICK m : RunsTo(all, wanted, q, f, g, i - 1, m)
    BY <1>5
  <2>2. PICK found, r, tx : found = f[i - 1] /\ r = f[i] /\ tx = log[i]
    OBVIOUS
  <2>3. TurnOf(found, tx, q, r)
    <3>1. r = Visit(found, tx, q)
      BY <2>2 DEF Visits
    <3> QED
      BY <3>1, VisitTurns
  <2>4. CASE found.full
    <3>1. r = found
      BY <2>3, <2>4 DEF TurnOf
    <3>2. RunsTo(all, wanted, q, f, g, i, m)
      BY <2>1, <2>2, <2>4, <3>1 DEF RunsTo
    <3> QED
      BY <3>2
  <2>5. CASE ~found.full
    <3>1. /\ m = i - 1 /\ found.previous = g[i - 1].previous /\ \A n \in q.limit : Len(found.entries) < n
          /\ found.entries = FirstAt(all, wanted, i - 1)
      BY <2>1, <2>2, <2>5 DEF RunsTo
    <3>2. r.previous = g[i].previous
      <4>1. r.previous = TrackVersions(found.previous, tx)
        BY <2>3, <2>5 DEF TurnOf
      <4>2. g[i].previous = TrackVersions(g[i - 1].previous, log[i])
        BY HistoryGoesOn
      <4> QED
        BY <2>2, <3>1, <4>1, <4>2
    <3>3. i \in wanted <=> Included(tx, q)
      BY <1>1, <2>2 DEF Wanted
    <3>4. FirstAt(all, wanted, i) = IF i \in wanted THEN FirstAt(all, wanted, i - 1) \o <<all[i]>>
                                                    ELSE FirstAt(all, wanted, i - 1)
      BY <1>3 DEF GrowsAt
    <3>5. FirstAt(all, wanted, i - 1) \in Seq(S) /\ all[i] \in S
      <4>1. i - 1 \in 0..N
        OBVIOUS
      <4> QED
        BY <1>2, <1>3, <4>1 DEF GrowsAt
    <3>6. CASE Included(tx, q)
      <4>1. /\ r.entries = Append(found.entries, FromTransaction(tx, found.previous))
            /\ r.full <=> \E n \in q.limit : Len(r.entries) >= n
        BY <2>3, <2>5, <3>6 DEF TurnOf
      <4>2. all[i] = FromTransaction(tx, found.previous)
        BY <2>2, <3>1 DEF IsHistory
      <4>3. PICK a, e : a = found.entries /\ e = all[i]
        OBVIOUS
      <4>4. a \in Seq(S) /\ e \in S /\ r.entries = Append(a, e)
        BY <3>1, <3>5, <4>1, <4>2, <4>3
      <4>5. r.entries = a \o <<e>> /\ Len(r.entries) = Len(a) + 1 /\ Len(a) \in Nat
        BY <4>4
      <4>6. r.entries = FirstAt(all, wanted, i)
        BY <3>1, <3>3, <3>4, <3>6, <4>3, <4>5
      <4>7. CASE r.full
        <5>1. PICK n \in q.limit : Len(r.entries) >= n
          BY <4>1, <4>7
        <5>2. n \in Nat /\ Len(a) < n
          BY <3>1, <4>3 DEF IsLimit
        <5>3. Len(r.entries) = n
          BY <4>5, <5>1, <5>2
        <5>4. RunsTo(all, wanted, q, f, g, i, i)
          BY <2>2, <3>3, <3>6, <4>6, <4>7, <5>3 DEF RunsTo
        <5> QED
          BY <5>4
      <4>8. CASE ~r.full
        <5>1. \A n \in q.limit : Len(r.entries) < n
          <6>1. \A n \in q.limit : n \in Nat /\ ~(Len(r.entries) >= n)
            BY <4>1, <4>8 DEF IsLimit
          <6> QED
            BY <4>5, <6>1
        <5>2. RunsTo(all, wanted, q, f, g, i, i)
          BY <2>2, <3>2, <4>6, <4>8, <5>1 DEF RunsTo
        <5> QED
          BY <5>2
      <4> QED
        BY <4>7, <4>8
    <3>7. CASE ~Included(tx, q)
      <4>1. r.entries = found.entries /\ ~r.full
        BY <2>3, <2>5, <3>7 DEF TurnOf
      <4>2. r.entries = FirstAt(all, wanted, i)
        BY <3>1, <3>3, <3>4, <3>7, <4>1
      <4>3. RunsTo(all, wanted, q, f, g, i, i)
        BY <2>2, <3>1, <3>2, <4>1, <4>2 DEF RunsTo
      <4> QED
        BY <4>3
    <3> QED
      BY <3>6, <3>7
  <2> QED
    BY <2>4, <2>5
<1>6. N \in G
  <2> HIDE DEF G
  <2>1. \A i \in 1..N : i - 1 \in G => i \in G
    BY <1>5
  <2>2. 0..N \subseteq G
    BY <1>4, <2>1, NaturalSteps
  <2> QED
    BY <2>2
<1> QED
  BY <1>1, <1>6

\* What a query answers: the entries of the transactions it asks for, to the
\* end or as many as it wants.
Answers(all, wanted, N, limit, answer, m) ==
  /\ m \in 0..N /\ answer = FirstAt(all, wanted, m)
  /\ \/ m = N /\ \A n \in limit : Len(answer) < n
     \/ m \in wanted /\ \E n \in limit : Len(answer) = n

\* So does get_changelog.
LEMMA ChangelogAnswers ==
  ASSUME NEW log, NEW N \in Nat, N = Len(log), DOMAIN log = 1..N, NEW S, NEW all, NEW g,
         IsHistory(log, N, S, all, g), NEW q, IsLimit(q.limit)
  PROVE  \E m : Answers(all, Wanted(log, q), N, q.limit, GetChangelog(log, q), m)
<1>1. PICK f : Visits(log, q, N, f)
  BY VisitsHas
<1>2. GetChangelog(log, q) = f[N].entries
  BY <1>1, ChangelogIs
<1>3. PICK wanted : wanted = Wanted(log, q)
  OBVIOUS
<1>4. PICK m : RunsTo(all, wanted, q, f, g, N, m)
  BY <1>1, <1>3, RunGoes
<1>5. Answers(all, wanted, N, q.limit, GetChangelog(log, q), m)
  BY <1>2, <1>4 DEF RunsTo, Answers
<1> QED
  BY <1>3, <1>5

\* A history is a list of transactions with numbers to compare; a query is a
\* record of its fields.
IsLog(log, Tx) ==
  /\ log \in Seq(Tx) /\ \A tx \in Tx : tx.txId \in Nat /\ tx.committedAt \in Nat

IsQuery(q) ==
  /\ q = [sinceTx |-> q.sinceTx, sinceTime |-> q.sinceTime, tables |-> q.tables,
          branch |-> q.branch, limit |-> q.limit]
  /\ q.sinceTx \subseteq Nat /\ q.sinceTime \subseteq Nat /\ IsLimit(q.limit)

\* What a log holds at its places.
LEMMA LogPlaces ==
  ASSUME NEW Tx, NEW log, IsLog(log, Tx), NEW N, N = Len(log)
  PROVE  /\ N \in Nat /\ DOMAIN log = 1..N
         /\ \A i \in 1..N : log[i].txId \in Nat /\ log[i].committedAt \in Nat
BY DEF IsLog

\* An answer without a limit is all a query asks for.
LEMMA UnlimitedAnswers ==
  ASSUME NEW log, NEW Tx, IsLog(log, Tx), NEW N, N = Len(log), NEW S, NEW all, NEW g,
         IsHistory(log, N, S, all, g), NEW q, q.limit = {}
  PROVE  GetChangelog(log, q) = At(all, Wanted(log, q))
<1>1. N \in Nat /\ DOMAIN log = 1..N
  BY LogPlaces
<1>2. IsLimit(q.limit)
  BY DEF IsLimit
<1>3. PICK wanted : wanted = Wanted(log, q)
  OBVIOUS
<1>4. PICK m : Answers(all, wanted, N, q.limit, GetChangelog(log, q), m)
  BY <1>1, <1>2, <1>3, ChangelogAnswers
<1>5. GetChangelog(log, q) = FirstAt(all, wanted, N)
  BY <1>4 DEF Answers
<1>6. all \in Seq(S) /\ N = Len(all)
  BY DEF IsHistory
<1>7. GrowsAt(S, all, wanted, N)
  BY <1>6, ElementsGrow
<1> QED
  BY <1>3, <1>5, <1>7 DEF GrowsAt

\* A query for everything is answered with the whole history.
LEMMA HistoryIsAll ==
  ASSUME NEW log, NEW Tx, IsLog(log, Tx), NEW N, N = Len(log), NEW S, NEW all, NEW g,
         IsHistory(log, N, S, all, g)
  PROVE  GetChangelog(log, Everything) = all
<1>1. Everything.limit = {}
  BY DEF Everything
<1>2. GetChangelog(log, Everything) = At(all, Wanted(log, Everything))
  BY <1>1, UnlimitedAnswers
<1>3. all \in Seq(S) /\ N = Len(all)
  BY DEF IsHistory
<1>4. 1..Len(all) \subseteq Wanted(log, Everything)
  <2>1. DOMAIN log = 1..N
    BY LogPlaces
  <2>2. \A i \in 1..N : Included(log[i], Everything)
    BY EverythingWanted
  <2> QED
    BY <1>3, <2>1, <2>2 DEF Wanted
<1>5. At(all, Wanted(log, Everything)) = all
  BY <1>3, <1>4, AtEveryPlace
<1> QED
  BY <1>2, <1>5

\* The entries a query asks for are those of the transactions it asks for.
AskedFor(q, e) ==
  /\ MatchesEntry(q, e)
  /\ \A x \in q.sinceTx : e.txId > x
  /\ \A time \in q.sinceTime : e.committedAt >= time

\* An entry is asked for when its transaction is included.
LEMMA EntriesAskedFor ==
  ASSUME NEW tx, tx.txId \in Nat, tx.committedAt \in Nat, NEW q, IsQuery(q), NEW previous
  PROVE  AskedFor(q, FromTransaction(tx, previous)) <=> Included(tx, q)
<1>1. PICK changes : changes = [t \in DOMAIN tx.writes |->
        TableChange(IF t \in DOMAIN previous THEN previous[t] ELSE 0, tx.writes[t])]
  OBVIOUS
<1>2. PICK e : e = FromTransaction(tx, previous)
  OBVIOUS
<1>3. e = [txId |-> tx.txId, committedAt |-> tx.committedAt, branch |-> tx.branch, changes |-> changes]
  BY <1>1, <1>2, Zenon DEF FromTransaction
<1>4. /\ e.txId = tx.txId /\ e.committedAt = tx.committedAt /\ e.branch = tx.branch
      /\ DOMAIN e.changes = DOMAIN tx.writes
  BY <1>1, <1>3
<1>5. (\A ts \in q.tables : \E t \in ts : ContainsTable(e, t))
        <=> (\A ts \in q.tables : ts \cap DOMAIN tx.writes # {})
  BY <1>4 DEF ContainsTable
<1>6. (\A x \in q.sinceTx : e.txId > x) <=> ~(\E x \in q.sinceTx : tx.txId <= x)
  BY <1>4 DEF IsQuery
<1>7. (\A time \in q.sinceTime : e.committedAt >= time) <=> ~(\E time \in q.sinceTime : tx.committedAt < time)
  BY <1>4 DEF IsQuery
<1>8. (\A b \in q.branch : e.branch = b) <=> ~(\E b \in q.branch : tx.branch # b)
  BY <1>4
<1>9. AskedFor(q, e) <=> Included(tx, q)
  BY <1>5, <1>6, <1>7, <1>8, Zenon DEF AskedFor, MatchesEntry, Included, Skipped
<1> QED
  BY <1>2, <1>9

\* What a limit makes of all entries: the first of them.
LEMMA LimitedAnswers ==
  ASSUME NEW log, NEW Tx, IsLog(log, Tx), NEW N, N = Len(log), NEW S, NEW all, NEW g,
         IsHistory(log, N, S, all, g), NEW q, IsLimit(q.limit), NEW n \in q.limit,
         NEW whole, whole = At(all, Wanted(log, q))
  PROVE  GetChangelog(log, q) = SubSeq(whole, 1, IF n < Len(whole) THEN n ELSE Len(whole))
<1>1. N \in Nat /\ DOMAIN log = 1..N
  BY LogPlaces
<1>2. PICK wanted, answer : wanted = Wanted(log, q) /\ answer = GetChangelog(log, q)
  OBVIOUS
<1>3. PICK m : Answers(all, wanted, N, q.limit, answer, m)
  BY <1>1, <1>2, ChangelogAnswers
<1>4. all \in Seq(S) /\ N = Len(all)
  BY DEF IsHistory
<1>5. PICK later : later = {i \in wanted : i > m}
  OBVIOUS
<1>6. GrowsAt(S, all, wanted, N) /\ GrowsAt(S, all, later, N)
  BY <1>4, ElementsGrow
<1>7. PICK rest : rest = FirstAt(all, later, N)
  OBVIOUS
<1>8. m \in 0..N /\ answer = FirstAt(all, wanted, m) /\ whole = FirstAt(all, wanted, N)
  BY <1>2, <1>3, <1>6 DEF Answers, GrowsAt
<1>9. answer \in Seq(S) /\ rest \in Seq(S) /\ whole \in Seq(S)
  <2>1. N \in 0..N
    BY <1>1
  <2> QED
    BY <1>6, <1>7, <1>8, <2>1 DEF GrowsAt
<1>10. whole = answer \o rest
  <2>1. \A i \in 1..N : i \in later <=> i \in wanted /\ i > m
    BY <1>5
  <2>2. Continues(all, wanted, later, m, N)
    <3>1. m \in 0..Len(all) /\ N \in m..Len(all)
      BY <1>1, <1>4, <1>8
    <3> QED
      BY <1>4, <2>1, <3>1, LaterContinue
  <2> QED
    BY <1>7, <1>8, <2>2 DEF Continues
<1>11. n \in Nat
  BY DEF IsLimit
<1>12. CASE m = N /\ Len(answer) < n
  <2>1. whole = answer
    BY <1>8, <1>12
  <2>2. PICK L \in Nat : L = Len(whole)
    BY <1>9
  <2>3. ~(n < L)
    BY <1>11, <1>12, <2>1, <2>2
  <2>4. SubSeq(whole, 1, Len(whole)) = whole
    BY <1>9, SubSeqFull
  <2> QED
    BY <1>2, <2>1, <2>2, <2>3, <2>4
<1>13. CASE \E k \in q.limit : Len(answer) = k
  <2>1. Len(answer) = n
    BY <1>13 DEF IsLimit
  <2>2. PICK K \in Nat : K = Len(whole)
    BY <1>9
  <2>3. n <= K
    BY <1>9, <1>10, <1>11, <2>1, <2>2
  <2>4. (IF n < K THEN n ELSE K) = n
    BY <1>11, <2>2, <2>3
  <2>5. SubSeq(whole, 1, n) = answer
    <3>1. PICK part : part = SubSeq(whole, 1, n)
      OBVIOUS
    <3>2. part \in Seq(S) /\ Len(part) = n /\ \A i \in 1..n : part[i] = whole[i]
      BY <1>9, <1>11, <2>2, <2>3, <3>1
    <3>3. \A i \in 1..n : whole[i] = answer[i]
      BY <1>9, <1>10, <2>1
    <3>4. part = answer
      BY <1>9, <2>1, <3>2, <3>3, SeqEqual
    <3> QED
      BY <3>1, <3>4
  <2> QED
    BY <1>2, <2>2, <2>4, <2>5
<1> QED
  BY <1>3, <1>12, <1>13 DEF Answers

\* The property of queries holds of any log and query.
LEMMA QueriesFilter ==
  ASSUME NEW Tx, IsLog(input[1], Tx), IsQuery(input[2])
  PROVE  QueriesFilterHistory
<1>1. PICK log, q : log = input[1] /\ q = input[2]
  OBVIOUS
<1>2. IsLog(log, Tx) /\ IsQuery(q) /\ IsLimit(q.limit)
  BY <1>1 DEF IsQuery
<1>3. PICK N : N = Len(log)
  OBVIOUS
<1>4. /\ N \in Nat /\ DOMAIN log = 1..N
      /\ \A i \in 1..N : log[i].txId \in Nat /\ log[i].committedAt \in Nat
  BY <1>2, <1>3, LogPlaces
<1>5. PICK S, all, g : IsHistory(log, N, S, all, g)
  BY <1>4, HistoryHas
<1>6. GetChangelog(log, Everything) = all
  BY <1>2, <1>3, <1>5, HistoryIsAll
<1>7. PICK whole : whole = At(all, {i \in DOMAIN all : AskedFor(q, all[i])})
  OBVIOUS
<1>8. whole = At(all, Wanted(log, q))
  <2>1. DOMAIN all = 1..N
    BY <1>5 DEF IsHistory
  <2>2. ASSUME NEW i \in 1..N PROVE AskedFor(q, all[i]) <=> Included(log[i], q)
    <3>1. PICK tx, previous : tx = log[i] /\ previous = g[i - 1].previous
      OBVIOUS
    <3>2. all[i] = FromTransaction(tx, previous)
      BY <1>5, <3>1 DEF IsHistory
    <3>3. AskedFor(q, FromTransaction(tx, previous)) <=> Included(tx, q)
      BY <1>2, <1>4, <3>1, EntriesAskedFor
    <3> QED
      BY <3>1, <3>2, <3>3
  <2>3. {i \in DOMAIN all : AskedFor(q, all[i])} = Wanted(log, q)
    BY <1>4, <2>1, <2>2 DEF Wanted
  <2> QED
    BY <1>7, <2>3
<1>9. PICK r : r = [q EXCEPT !.limit = {}]
  OBVIOUS
<1>10. GetChangelog(log, r) = whole
  <2>1. /\ r.limit = {} /\ r.sinceTx = q.sinceTx /\ r.sinceTime = q.sinceTime
        /\ r.tables = q.tables /\ r.branch = q.branch
    <3>1. q = [sinceTx |-> q.sinceTx, sinceTime |-> q.sinceTime, tables |-> q.tables,
               branch |-> q.branch, limit |-> q.limit]
      BY <1>2 DEF IsQuery
    <3>2. DOMAIN q = {"sinceTx", "sinceTime", "tables", "branch", "limit"}
      BY <3>1
    <3> QED
      BY <1>9, <3>2
  <2>2. Wanted(log, r) = Wanted(log, q)
    BY <2>1 DEF Wanted, Included, Skipped
  <2> QED
    BY <1>2, <1>3, <1>5, <1>8, <2>1, <2>2, UnlimitedAnswers
<1>11. q.limit = {} => GetChangelog(log, q) = whole
  BY <1>2, <1>3, <1>5, <1>8, UnlimitedAnswers
<1>12. ASSUME NEW n \in q.limit
       PROVE  GetChangelog(log, q) = SubSeq(whole, 1, IF n < Len(whole) THEN n ELSE Len(whole))
  BY <1>2, <1>3, <1>5, <1>8, LimitedAnswers
<1> QED
  BY <1>1, <1>6, <1>7, <1>9, <1>10, <1>11, <1>12, Zenon DEF QueriesFilterHistory, AskedFor

-----------------------------------------------------------------------------
(* Pages of the changelog                                                   *)

Ascending(log) == \A i, j \in DOMAIN log : i < j => log[i].txId < log[j].txId

\* What a reader has seen after another page.
AfterPage(log, q, seen) ==
  seen \o GetChangelog(log, IF seen = <<>> THEN q ELSE [q EXCEPT !.sinceTx = {Last(seen).txId}])

\* The next place wanted is reached.
Reaches(all, wanted, N, m, next, n) ==
  /\ n \in 0..N /\ next = FirstAt(all, wanted, n)
  /\ \A i \in wanted : (\A j \in wanted : j < i => j <= m) => i <= n

\* A query that starts after a transaction wants what comes after it.
LEMMA WantedAfter ==
  ASSUME NEW log, NEW Tx, IsLog(log, Tx), Ascending(log), NEW q, IsQuery(q),
         NEW l \in Wanted(log, q), NEW x, x = log[l].txId,
         NEW r, r = [q EXCEPT !.sinceTx = {x}]
  PROVE  /\ IsLimit(r.limit) /\ r.limit = q.limit
         /\ \A i \in DOMAIN log : i \in Wanted(log, r) <=> i \in Wanted(log, q) /\ i > l
<1>1. PICK N : N = Len(log)
  OBVIOUS
<1>2. N \in Nat /\ DOMAIN log = 1..N /\ \A i \in 1..N : log[i].txId \in Nat
  BY <1>1, LogPlaces
<1>3. /\ r.sinceTx = {x} /\ r.sinceTime = q.sinceTime
      /\ r.tables = q.tables /\ r.branch = q.branch /\ r.limit = q.limit
  <2>1. q = [sinceTx |-> q.sinceTx, sinceTime |-> q.sinceTime, tables |-> q.tables,
             branch |-> q.branch, limit |-> q.limit]
    BY DEF IsQuery
  <2>2. DOMAIN q = {"sinceTx", "sinceTime", "tables", "branch", "limit"}
    BY <2>1
  <2> QED
    BY <2>2
<1>4. l \in 1..N /\ Included(log[l], q) /\ x \in Nat
  BY <1>2 DEF Wanted
<1>5. \A y \in q.sinceTx : y \in Nat /\ y < x
  BY <1>2, <1>4 DEF Included, Skipped, IsQuery
<1>6. ASSUME NEW i \in 1..N PROVE Included(log[i], r) <=> Included(log[i], q) /\ i > l
  <2>1. PICK tx, id : tx = log[i] /\ id = tx.txId
    OBVIOUS
  <2>2. id \in Nat
    BY <1>2, <2>1
  <2>3. id <= x <=> ~(i > l)
    <3>1. CASE i > l
      <4>1. x < id
        BY <1>2, <1>4, <2>1, <3>1 DEF Ascending
      <4> QED
        BY <1>4, <2>2, <3>1, <4>1
    <3>2. CASE i = l
      BY <1>4, <2>1, <2>2, <3>2
    <3>3. CASE i < l
      <4>1. id < x
        BY <1>2, <1>4, <2>1, <3>3 DEF Ascending
      <4> QED
        BY <1>4, <2>2, <3>3, <4>1
    <3> QED
      BY <1>4, <3>1, <3>2, <3>3
  <2>4. i > l => ~\E y \in q.sinceTx : id <= y
    BY <1>4, <1>5, <2>2, <2>3
  <2>5. Skipped(tx, r) <=> ~(i > l) \/ \/ \E time \in q.sinceTime : tx.committedAt < time
                                       \/ \E b \in q.branch : tx.branch # b
    BY <1>3, <2>1, <2>3 DEF Skipped
  <2>6. i > l => (Skipped(tx, q) <=> \/ \E time \in q.sinceTime : tx.committedAt < time
                                     \/ \E b \in q.branch : tx.branch # b)
    BY <2>1, <2>4 DEF Skipped
  <2> QED
    BY <1>3, <2>1, <2>5, <2>6 DEF Included
<1> QED
  BY <1>2, <1>3, <1>6 DEF Wanted, IsQuery

\* The next page goes on where the pages before ended.
LEMMA PageReaches ==
  ASSUME NEW log, NEW Tx, IsLog(log, Tx), Ascending(log), NEW N, N = Len(log), NEW S, NEW all, NEW g,
         IsHistory(log, N, S, all, g), NEW q, IsQuery(q), NEW wanted, wanted = Wanted(log, q),
         NEW m \in 0..N, NEW seen, seen = FirstAt(all, wanted, m)
  PROVE  \E n : Reaches(all, wanted, N, m, AfterPage(log, q, seen), n)
<1>1. N \in Nat /\ DOMAIN log = 1..N
  BY LogPlaces
<1>2. all \in Seq(S) /\ N = Len(all)
  BY DEF IsHistory
<1>3. wanted \subseteq 1..N
  BY <1>1 DEF Wanted
<1>4. IsLimit(q.limit)
  BY DEF IsQuery
<1>5. HasLast(all, wanted, m)
  BY <1>2, LastIsAt
<1>6. CASE seen = <<>>
  <2>1. wanted \cap (1..m) = {}
    BY <1>5, <1>6 DEF HasLast
  <2>2. PICK answer : answer = GetChangelog(log, q)
    OBVIOUS
  <2>3. PICK n : Answers(all, wanted, N, q.limit, answer, n)
    BY <1>1, <1>4, <2>2, ChangelogAnswers
  <2>4. n \in 0..N /\ answer = FirstAt(all, wanted, n) /\ (n = N \/ n \in wanted)
    BY <2>3 DEF Answers
  <2>5. AfterPage(log, q, seen) = answer
    <3>1. answer \in Seq(S)
      <4>1. GrowsAt(S, all, wanted, N)
        BY <1>2, ElementsGrow
      <4> QED
        BY <2>4, <4>1 DEF GrowsAt
    <3>2. <<>> \o answer = answer
      BY <3>1
    <3> QED
      BY <1>6, <2>2, <3>2 DEF AfterPage
  <2>6. ASSUME NEW i \in wanted, \A j \in wanted : j < i => j <= m PROVE i <= n
    <3>1. i \in 1..N
      BY <1>3
    <3>2. ASSUME ~(i <= n) PROVE FALSE
      <4>1. n \in wanted /\ n < i
        BY <1>1, <2>4, <3>1, <3>2
      <4>2. n \in 1..N /\ n <= m
        BY <1>3, <2>6, <4>1
      <4>3. n \in 1..m
        BY <4>2
      <4> QED
        BY <2>1, <4>1, <4>3
    <3> QED
      BY <3>2
  <2>7. Reaches(all, wanted, N, m, answer, n)
    BY <2>4, <2>6 DEF Reaches
  <2> QED
    BY <2>5, <2>7
<1>7. CASE seen # <<>>
  <2>1. PICK l : LastAt(all, wanted, m, l)
    BY <1>5, <1>7 DEF HasLast
  <2>2. l \in wanted /\ l \in 1..m /\ (\A i \in wanted \cap (1..m) : i <= l) /\ seen[Len(seen)] = all[l]
    BY <2>1 DEF LastAt
  <2>3. PICK x : x = log[l].txId
    OBVIOUS
  <2>4. Last(seen).txId = x
    <3>1. l \in 1..N
      BY <1>3, <2>2
    <3>2. all[l] = FromTransaction(log[l], g[l - 1].previous)
      BY <3>1 DEF IsHistory
    <3>3. Last(seen) = all[l]
      BY <2>2 DEF Last
    <3> QED
      BY <2>3, <3>2, <3>3 DEF FromTransaction
  <2>5. PICK r, rest, answer : r = [q EXCEPT !.sinceTx = {x}] /\ rest = Wanted(log, r) /\ answer = GetChangelog(log, r)
    OBVIOUS
  <2>6. AfterPage(log, q, seen) = seen \o answer
    BY <1>7, <2>4, <2>5 DEF AfterPage
  <2>7. IsLimit(r.limit) /\ \A i \in 1..N : i \in rest <=> i \in wanted /\ i > l
    BY <1>1, <2>2, <2>3, <2>5, WantedAfter
  <2>8. PICK n : Answers(all, rest, N, r.limit, answer, n)
    <3>1. IsLimit(r.limit)
      BY <2>7
    <3>2. PICK n : Answers(all, Wanted(log, r), N, r.limit, GetChangelog(log, r), n)
      BY <1>1, <3>1, ChangelogAnswers
    <3> QED
      BY <2>5, <3>2
  <2>9. n \in 0..N /\ answer = FirstAt(all, rest, n) /\ (n = N \/ n \in rest)
    BY <2>8 DEF Answers
  <2>10. rest \subseteq 1..N /\ rest \subseteq wanted
    <3>1. rest \subseteq 1..N
      BY <1>1, <2>5 DEF Wanted
    <3> QED
      BY <2>7, <3>1
  <2>11. l \in 0..N /\ l <= n
    <3>1. l \in 1..N
      BY <1>3, <2>2
    <3>2. CASE n = N
      BY <1>1, <3>1, <3>2
    <3>3. CASE n \in rest
      <4>1. n \in 1..N /\ n > l
        BY <2>7, <2>10, <3>3
      <4> QED
        BY <3>1, <4>1
    <3> QED
      BY <2>9, <3>2, <3>3
  <2>12. seen = FirstAt(all, wanted, l)
    <3>1. wanted \cap (1..m) = wanted \cap (1..l)
      <4>1. \A i \in wanted \cap (1..m) : i \in 1..l
        BY <2>2, <2>11
      <4>2. 1..l \subseteq 1..m
        BY <2>2
      <4> QED
        BY <4>1, <4>2
    <3> QED
      BY <3>1 DEF FirstAt
  <2>13. seen \o answer = FirstAt(all, wanted, n)
    <3>1. l \in 0..Len(all) /\ n \in l..Len(all)
      BY <1>1, <1>2, <2>9, <2>11
    <3>2. \A i \in 1..n : i \in rest <=> i \in wanted /\ i > l
      BY <2>7, <2>9
    <3>3. Continues(all, wanted, rest, l, n)
      BY <1>2, <3>1, <3>2, LaterContinue
    <3> QED
      BY <2>9, <2>12, <3>3 DEF Continues
  <2>14. ASSUME NEW i \in wanted, \A j \in wanted : j < i => j <= m PROVE i <= n
    <3>1. i \in 1..N
      BY <1>3
    <3>2. ASSUME ~(i <= n) PROVE FALSE
      <4>1. n \in rest /\ n < i
        BY <1>1, <2>9, <3>1, <3>2
      <4>2. n \in wanted /\ n \in 1..N /\ n > l
        BY <2>7, <2>10, <4>1
      <4>3. n <= m
        BY <2>14, <4>1, <4>2
      <4>4. n \in wanted \cap (1..m)
        BY <4>2, <4>3
      <4>5. n <= l
        BY <2>2, <4>4
      <4> QED
        BY <2>11, <4>2, <4>5
    <3> QED
      BY <3>2
  <2>15. Reaches(all, wanted, N, m, seen \o answer, n)
    BY <2>9, <2>13, <2>14 DEF Reaches
  <2> QED
    BY <2>6, <2>15
<1> QED
  BY <1>6, <1>7

\* What a reader has seen after each of N pages.
ReadsPages(log, q, N, f) ==
  /\ f = [i \in 0..N |-> f[i]] /\ f[0] = <<>>
  /\ \A i \in 1..N : f[i] = AfterPage(log, q, f[i - 1])

\* Reading pages can go on.
LEMMA PagesHave ==
  ASSUME NEW log, NEW q, NEW N \in Nat
  PROVE  \E f : ReadsPages(log, q, N, f)
<1> DEFINE G == {k \in 0..N : \E f : ReadsPages(log, q, k, f)}
<1>1. 0 \in G
  <2>1. PICK f : f = [i \in 0..0 |-> <<>>]
    OBVIOUS
  <2>2. ReadsPages(log, q, 0, f)
    <3>1. f[0] = <<>> /\ f = [i \in 0..0 |-> f[i]]
      BY <2>1
    <3>2. \A i \in 1..0 : f[i] = AfterPage(log, q, f[i - 1])
      OBVIOUS
    <3> QED
      BY <3>1, <3>2 DEF ReadsPages
  <2> QED
    BY <2>2
<1>2. ASSUME NEW k \in 1..N, k - 1 \in G PROVE k \in G
  <2>1. PICK f : ReadsPages(log, q, k - 1, f)
    BY <1>2
  <2>2. PICK seen : seen = AfterPage(log, q, f[k - 1])
    OBVIOUS
  <2>3. PICK g : g = [i \in 0..k |-> IF i = k THEN seen ELSE f[i]]
    OBVIOUS
  <2>4. g = [i \in 0..k |-> g[i]]
    BY <2>3
  <2>5. g[0] = <<>>
    BY <2>1, <2>3 DEF ReadsPages
  <2>6. ASSUME NEW i \in 1..k PROVE g[i] = AfterPage(log, q, g[i - 1])
    <3>1. g[i - 1] = f[i - 1]
      BY <2>3
    <3>2. CASE i = k
      BY <2>2, <2>3, <3>1, <3>2
    <3>3. CASE i # k
      <4>1. i \in 1..(k - 1)
        BY <3>3
      <4>2. f[i] = AfterPage(log, q, f[i - 1])
        BY <2>1, <4>1 DEF ReadsPages
      <4>3. g[i] = f[i]
        BY <2>3, <3>3
      <4> QED
        BY <3>1, <4>2, <4>3
    <3> QED
      BY <3>2, <3>3
  <2>7. ReadsPages(log, q, k, g)
    BY <2>4, <2>5, <2>6 DEF ReadsPages
  <2> QED
    BY <2>7
<1>3. N \in G
  <2> HIDE DEF G
  <2>1. \A k \in 1..N : k - 1 \in G => k \in G
    BY <1>2
  <2>2. 0..N \subseteq G
    BY <1>1, <2>1, NaturalSteps
  <2> QED
    BY <2>2
<1> QED
  BY <1>3

\* Every page shows the next entry wanted, so that N of them show all.
LEMMA PagesReachAll ==
  ASSUME NEW log, NEW Tx, IsLog(log, Tx), Ascending(log), NEW N, N = Len(log), NEW S, NEW all, NEW g,
         IsHistory(log, N, S, all, g), NEW q, IsQuery(q), NEW f, ReadsPages(log, q, N, f)
  PROVE  f[N] = At(all, Wanted(log, q))
<1>1. PICK wanted : wanted = Wanted(log, q)
  OBVIOUS
<1>2. N \in Nat /\ DOMAIN log = 1..N /\ wanted \subseteq 1..N
  BY <1>1, LogPlaces DEF Wanted
<1>3. all \in Seq(S) /\ N = Len(all)
  BY DEF IsHistory
<1>4. GrowsAt(S, all, wanted, N)
  BY <1>3, ElementsGrow
<1> DEFINE Shows(k, m) == /\ m \in 0..N /\ f[k] = FirstAt(all, wanted, m)
                          /\ \A i \in wanted : i <= k => i <= m
           G == {k \in 0..N : \E m : Shows(k, m)}
<1>5. 0 \in G
  <2>1. f[0] = FirstAt(all, wanted, 0)
    BY <1>4 DEF ReadsPages, GrowsAt
  <2>2. Shows(0, 0)
    BY <1>2, <2>1
  <2> QED
    BY <1>2, <2>2
<1>6. ASSUME NEW k \in 1..N, k - 1 \in G PROVE k \in G
  <2>1. PICK m : Shows(k - 1, m)
    BY <1>6
  <2>2. PICK seen : seen = f[k - 1]
    OBVIOUS
  <2>3. PICK n : Reaches(all, wanted, N, m, AfterPage(log, q, seen), n)
    <3>1. m \in 0..N /\ seen = FirstAt(all, wanted, m)
      BY <2>1, <2>2
    <3> QED
      BY <1>1, <3>1, PageReaches
  <2>4. f[k] = AfterPage(log, q, seen)
    BY <2>2 DEF ReadsPages
  <2>5. /\ n \in 0..N /\ f[k] = FirstAt(all, wanted, n)
        /\ \A i \in wanted : (\A j \in wanted : j < i => j <= m) => i <= n
    BY <2>3, <2>4 DEF Reaches
  <2>6. ASSUME NEW i \in wanted, i <= k PROVE i <= n
    <3>1. ASSUME NEW j \in wanted, j < i PROVE j <= m
      <4>1. i \in 1..N /\ j \in 1..N
        BY <1>2
      <4>2. j <= k - 1
        BY <2>6, <3>1, <4>1
      <4> QED
        BY <2>1, <4>2
    <3> QED
      BY <2>5, <3>1
  <2>7. Shows(k, n)
    BY <2>5, <2>6
  <2> HIDE DEF Shows
  <2> QED
    BY <1>2, <2>7
<1>7. N \in G
  <2> HIDE DEF G
  <2>1. \A k \in 1..N : k - 1 \in G => k \in G
    BY <1>6
  <2>2. 0..N \subseteq G
    BY <1>2, <1>5, <2>1, NaturalSteps
  <2> QED
    BY <1>2, <2>2
<1>8. PICK m : Shows(N, m)
  BY <1>7
<1>9. FirstAt(all, wanted, m) = FirstAt(all, wanted, N)
  <2>1. wanted \cap (1..m) = wanted \cap (1..N)
    <3>1. \A i \in wanted : i \in 1..m /\ i \in 1..N
      BY <1>2, <1>8
    <3> QED
      BY <3>1
  <2> QED
    BY <2>1 DEF FirstAt
<1> QED
  BY <1>1, <1>4, <1>8, <1>9 DEF GrowsAt

\* The property of pages holds of any log and query.
LEMMA PagesCover ==
  ASSUME NEW Tx, IsLog(input[1], Tx), IsQuery(input[2])
  PROVE  PagesCoverHistory
<1> DEFINE log == input[1]
           q == input[2]
           Page(seen) ==
             GetChangelog(log, IF seen = <<>> THEN q ELSE [q EXCEPT !.sinceTx = {Last(seen).txId}])
           pages[k \in 0..Len(log)] == IF k = 0 THEN <<>> ELSE pages[k - 1] \o Page(pages[k - 1])
<1>2. IsLog(log, Tx) /\ IsQuery(q)
  OBVIOUS
<1> HIDE DEF log, q
<1>3. PICK N : N = Len(log)
  OBVIOUS
<1>4. /\ N \in Nat /\ DOMAIN log = 1..N
      /\ \A i \in 1..N : log[i].txId \in Nat /\ log[i].committedAt \in Nat
  BY <1>2, <1>3, LogPlaces
<1>5. PICK S, all, g : IsHistory(log, N, S, all, g)
  BY <1>4, HistoryHas
<1>6. PICK f : ReadsPages(log, q, N, f)
  BY <1>4, PagesHave
<1>7. pages[N] = f[N]
  <2>1. f = [k \in 0..Len(log) |-> IF k = 0 THEN <<>> ELSE f[k - 1] \o Page(f[k - 1])]
    <3>1. ASSUME NEW k \in 0..N PROVE f[k] = IF k = 0 THEN <<>> ELSE f[k - 1] \o Page(f[k - 1])
      <4>1. k # 0 => k \in 1..N
        BY <1>4
      <4>2. k # 0 => f[k] = AfterPage(log, q, f[k - 1])
        BY <1>6, <4>1 DEF ReadsPages
      <4>3. f[0] = <<>>
        BY <1>6 DEF ReadsPages
      <4> QED
        BY <4>2, <4>3, Zenon DEF AfterPage
    <3>2. f = [k \in 0..N |-> f[k]]
      BY <1>6 DEF ReadsPages
    <3> HIDE DEF Page
    <3> QED
      BY <1>3, <3>1, <3>2
  <2>2. pages = [k \in 0..Len(log) |-> IF k = 0 THEN <<>> ELSE pages[k - 1] \o Page(pages[k - 1])]
    BY <2>1, Zenon
  <2> HIDE DEF pages
  <2> DEFINE G == {k \in 0..N : pages[k] = f[k]}
  <2>3. \A k \in 0..N : /\ pages[k] = IF k = 0 THEN <<>> ELSE pages[k - 1] \o Page(pages[k - 1])
                        /\ f[k] = IF k = 0 THEN <<>> ELSE f[k - 1] \o Page(f[k - 1])
    <3> HIDE DEF Page
    <3> QED
      BY <1>3, <2>1, <2>2
  <2>4. 0 \in G
    <3> HIDE DEF Page
    <3> QED
      BY <1>4, <2>3
  <2>5. ASSUME NEW k \in 1..N, k - 1 \in G PROVE k \in G
    <3> HIDE DEF Page
    <3>1. pages[k - 1] = f[k - 1]
      BY <2>5
    <3>2. k \in 0..N /\ k # 0
      BY <1>4
    <3> QED
      BY <2>3, <3>1, <3>2
  <2> HIDE DEF G
  <2>6. \A k \in 1..N : k - 1 \in G => k \in G
    BY <2>5
  <2>7. N \in G
    <3>1. 0..N \subseteq G
      BY <1>4, <2>4, <2>6, NaturalSteps
    <3> QED
      BY <1>4, <3>1
  <2> QED
    BY <2>7 DEF G
<1>8. PICK r : r = [q EXCEPT !.limit = {}]
  OBVIOUS
<1>9. GetChangelog(log, r) = At(all, Wanted(log, q))
  <2>1. /\ r.limit = {} /\ r.sinceTx = q.sinceTx /\ r.sinceTime = q.sinceTime
        /\ r.tables = q.tables /\ r.branch = q.branch
    <3>1. q = [sinceTx |-> q.sinceTx, sinceTime |-> q.sinceTime, tables |-> q.tables,
               branch |-> q.branch, limit |-> q.limit]
      BY <1>2 DEF IsQuery
    <3>2. DOMAIN q = {"sinceTx", "sinceTime", "tables", "branch", "limit"}
      BY <3>1
    <3> QED
      BY <1>8, <3>2
  <2>2. Wanted(log, r) = Wanted(log, q)
    BY <2>1 DEF Wanted, Included, Skipped
  <2> QED
    BY <1>2, <1>3, <1>5, <2>1, <2>2, UnlimitedAnswers
<1>10. Ascending(log) => pages[Len(log)] = GetChangelog(log, [q EXCEPT !.limit = {}])
  <2> HIDE DEF pages
  <2>1. SUFFICES ASSUME Ascending(log) PROVE pages[Len(log)] = GetChangelog(log, [q EXCEPT !.limit = {}])
    OBVIOUS
  <2>2. f[N] = At(all, Wanted(log, q))
    BY <1>2, <1>3, <1>5, <1>6, <2>1, PagesReachAll
  <2> QED
    BY <1>3, <1>7, <1>8, <1>9, <2>2
<1>11. ASSUME NEW x \in q.sinceTx
       PROVE  Ids(GetChangelog(log, [Everything EXCEPT !.sinceTx = {x}])) = Ids(ListCommittedSince(log, x))
  <2>1. PICK s : s = [Everything EXCEPT !.sinceTx = {x}]
    OBVIOUS
  <2>2. x \in Nat
    BY <1>2 DEF IsQuery
  <2>3. s = [sinceTx |-> {x}, sinceTime |-> {}, tables |-> {}, branch |-> {}, limit |-> {}]
    BY <2>1 DEF Everything
  <2>4. PICK places : places = {i \in DOMAIN log : log[i].txId > x}
    OBVIOUS
  <2>5. Wanted(log, s) = places
    <3>1. ASSUME NEW i \in 1..N PROVE Included(log[i], s) <=> log[i].txId > x
      BY <1>4, <2>2, <2>3 DEF Included, Skipped
    <3> QED
      BY <1>4, <2>4, <3>1 DEF Wanted
  <2>6. GetChangelog(log, s) = At(all, places)
    <3>1. s.limit = {}
      BY <2>3
    <3>2. GetChangelog(log, s) = At(all, Wanted(log, s))
      BY <1>2, <1>3, <1>5, <3>1, UnlimitedAnswers
    <3> QED
      BY <2>5, <3>2
  <2>7. Ids(At(all, places)) = Ids(At(log, places))
    <3>1. all \in Seq(S) /\ log \in Seq(Tx) /\ Len(all) = Len(log)
      BY <1>2, <1>3, <1>5 DEF IsHistory, IsLog
    <3>2. \A i \in 1..Len(all) : all[i].txId = log[i].txId
      <4>1. ASSUME NEW i \in 1..N PROVE all[i].txId = log[i].txId
        <5>1. all[i] = FromTransaction(log[i], g[i - 1].previous)
          BY <1>5 DEF IsHistory
        <5> QED
          BY <5>1 DEF FromTransaction
      <4>2. Len(all) = N
        BY <1>5 DEF IsHistory
      <4> QED
        BY <4>1, <4>2
    <3> QED
      BY <3>1, <3>2, SameIdsAt
  <2>8. ListCommittedSince(log, x) = At(log, places)
    BY <2>4 DEF ListCommittedSince
  <2> QED
    BY <2>1, <2>6, <2>7, <2>8
<1> QED
  BY <1>10, <1>11, Zenon DEF PagesCoverHistory, Ascending, log, q

\* What a run gives for a history and a query: transactions with numbers to
\* compare, and at most one limit, of one entry or more.
ChangelogDomains ==
  /\ Len(Domains["changelog"]) = 2
  /\ \E Tx : \A log \in Domains["changelog"][1] : IsLog(log, Tx)
  /\ \A q \in Domains["changelog"][2] : IsQuery(q)

\* Both hold of all arguments.
LEMMA ChangelogsSound ==
  ASSUME ChangelogDomains, ArgumentsTyped
  PROVE  ChangelogSound
<1>1. ASSUME Given("changelog") PROVE QueriesFilterHistory /\ PagesCoverHistory
  <2>1. \A i \in 1..2 : input[i] \in Domains["changelog"][i]
    BY <1>1, ArgumentsGiven DEF ChangelogDomains
  <2>2. input[1] \in Domains["changelog"][1] /\ input[2] \in Domains["changelog"][2]
    <3>1. 1 \in 1..2 /\ 2 \in 1..2
      OBVIOUS
    <3> QED
      BY <2>1, <3>1, Zenon
  <2>3. PICK Tx : IsLog(input[1], Tx)
    BY <2>2, Zenon DEF ChangelogDomains
  <2>4. IsQuery(input[2])
    BY <2>2, Zenon DEF ChangelogDomains
  <2> QED
    BY <2>3, <2>4, QueriesFilter, PagesCover
<1>2. ~Given("changelog") => QueriesFilterHistory /\ PagesCoverHistory
  BY Zenon DEF QueriesFilterHistory, PagesCoverHistory
<1> QED
  BY <1>1, <1>2 DEF ChangelogSound

\* Readers of the changelog see one history, for any list of transactions and
\* any query, of any length.
THEOREM ChangelogCorrect ==
  ASSUME ChangelogDomains
  PROVE  ArgumentsSpec => []ChangelogSound
<1>1. ASSUME ArgumentsTyped PROVE ChangelogSound
  BY <1>1, ChangelogsSound
<1> QED
  BY <1>1, ArgumentsCorrect, PTL

-----------------------------------------------------------------------------
(* What merges come to without the bounds of integers                       *)

\* The contents of values of each type, integers of any width among them, and
\* those that fit.
ContentsOf(t) == IF t = "Integer" THEN Int ELSE IF t = "StringSet" THEN SUBSET Strings
                 ELSE IF t = "IntSet" THEN SUBSET Int ELSE BOOLEAN
Fitted(t) == IF t = "Integer" THEN MinInt..MaxInt ELSE IF t = "StringSet" THEN SUBSET Strings
             ELSE IF t = "IntSet" THEN SUBSET (MinInt..MaxInt) ELSE BOOLEAN
ExactTypes == {"Integer", "StringSet", "IntSet", "Boolean"}

\* The types that an operation merges.
Merging(op) == IF op \in {"MAX", "MIN"} THEN {"Integer", "Boolean"}
               ELSE IF op \in {"UNION", "INTERSECT"} THEN {"StringSet", "IntSet", "Boolean"}
               ELSE IF op \in {"ADD", "MULTIPLY"} THEN {"Integer"} ELSE {}

\* j joins contents in any order, and to what the operation merges them to.
JoinsAnyOrder(C, j) ==
  /\ \A a, b \in C : j[a][b] \in C /\ j[a][b] = j[b][a]
  /\ \A a, b, c \in C : j[j[a][b]][c] = j[a][j[b][c]]
MergesInto(op, t, a, b, c) ==
  IsMerged(Merge(op, <<t, a>>, <<t, b>>)) => Merge(op, <<t, a>>, <<t, b>>) = Merged(<<t, c>>)
JoinsContents(op, t, j) ==
  JoinsAnyOrder(ContentsOf(t), j) /\ \A a, b \in Fitted(t) : MergesInto(op, t, a, b, j[a][b])

\* Integers join: the larger or smaller one, the sum or the product.
LEMMA IntegersJoin ==
  ASSUME NEW op \in {"MAX", "MIN", "ADD", "MULTIPLY"}
  PROVE  \E j : JoinsContents(op, "Integer", j)
<1>1. /\ ContentsOf("Integer") = Int /\ Fitted("Integer") = MinInt..MaxInt
      /\ \A a \in MinInt..MaxInt : a \in Int
  BY IntAssumption DEF ContentsOf, Fitted
<1>2. CASE op = "MAX"
  <2>1. PICK j : j = [a \in Int |-> [b \in Int |-> Upper(a, b)]]
    OBVIOUS
  <2>2. \A a, b \in Int : j[a][b] = Upper(a, b)
    BY <2>1
  <2>3. \A a, b \in Int : Upper(a, b) \in Int /\ Upper(a, b) = Upper(b, a)
    BY DEF Upper
  <2>4. \A a, b, c \in Int : Upper(Upper(a, b), c) = Upper(a, Upper(b, c))
    BY DEF Upper
  <2>5. JoinsAnyOrder(Int, j)
    <3>1. ASSUME NEW a \in Int, NEW b \in Int PROVE j[a][b] \in Int /\ j[a][b] = j[b][a]
      <4>1. j[a][b] = Upper(a, b) /\ j[b][a] = Upper(b, a)
        BY <2>2
      <4> QED
        BY <2>3, <4>1
    <3>2. ASSUME NEW a \in Int, NEW b \in Int, NEW c \in Int PROVE j[j[a][b]][c] = j[a][j[b][c]]
      <4>1. PICK x \in Int, y \in Int : x = j[a][b] /\ y = j[b][c]
        BY <3>1
      <4>2. j[x][c] = Upper(x, c) /\ j[a][y] = Upper(a, y)
        BY <2>2
      <4>3. x = Upper(a, b) /\ y = Upper(b, c)
        BY <2>2, <4>1
      <4> QED
        BY <2>4, <4>1, <4>2, <4>3
    <3> QED
      BY <3>1, <3>2 DEF JoinsAnyOrder
  <2>6. ASSUME NEW a \in MinInt..MaxInt, NEW b \in MinInt..MaxInt PROVE MergesInto(op, "Integer", a, b, j[a][b])
    <3>1. Merge("MAX", Integer(a), Integer(b)) = Merged(Integer(Upper(a, b)))
      BY IntegersMerge
    <3>2. j[a][b] = Upper(a, b)
      BY <1>1, <2>2
    <3> QED
      BY <1>2, <3>1, <3>2 DEF MergesInto, Integer
  <2> QED
    BY <1>1, <2>5, <2>6 DEF JoinsContents
<1>3. CASE op = "MIN"
  <2>1. PICK j : j = [a \in Int |-> [b \in Int |-> Lower(a, b)]]
    OBVIOUS
  <2>2. \A a, b \in Int : j[a][b] = Lower(a, b)
    BY <2>1
  <2>3. \A a, b \in Int : Lower(a, b) \in Int /\ Lower(a, b) = Lower(b, a)
    BY DEF Lower
  <2>4. \A a, b, c \in Int : Lower(Lower(a, b), c) = Lower(a, Lower(b, c))
    BY DEF Lower
  <2>5. JoinsAnyOrder(Int, j)
    <3>1. ASSUME NEW a \in Int, NEW b \in Int PROVE j[a][b] \in Int /\ j[a][b] = j[b][a]
      <4>1. j[a][b] = Lower(a, b) /\ j[b][a] = Lower(b, a)
        BY <2>2
      <4> QED
        BY <2>3, <4>1
    <3>2. ASSUME NEW a \in Int, NEW b \in Int, NEW c \in Int PROVE j[j[a][b]][c] = j[a][j[b][c]]
      <4>1. PICK x \in Int, y \in Int : x = j[a][b] /\ y = j[b][c]
        BY <3>1
      <4>2. j[x][c] = Lower(x, c) /\ j[a][y] = Lower(a, y)
        BY <2>2
      <4>3. x = Lower(a, b) /\ y = Lower(b, c)
        BY <2>2, <4>1
      <4> QED
        BY <2>4, <4>1, <4>2, <4>3
    <3> QED
      BY <3>1, <3>2 DEF JoinsAnyOrder
  <2>6. ASSUME NEW a \in MinInt..MaxInt, NEW b \in MinInt..MaxInt PROVE MergesInto(op, "Integer", a, b, j[a][b])
    <3>1. Merge("MIN", Integer(a), Integer(b)) = Merged(Integer(Lower(a, b)))
      BY IntegersMerge
    <3>2. j[a][b] = Lower(a, b)
      BY <1>1, <2>2
    <3> QED
      BY <1>3, <3>1, <3>2 DEF MergesInto, Integer
  <2> QED
    BY <1>1, <2>5, <2>6 DEF JoinsContents
<1>4. CASE op = "ADD"
  <2>1. PICK j : j = [a \in Int |-> [b \in Int |-> a + b]]
    OBVIOUS
  <2>2. \A a, b \in Int : j[a][b] = a + b
    BY <2>1
  <2>3. \A a, b \in Int : a + b \in Int /\ a + b = b + a
    OBVIOUS
  <2>4. \A a, b, c \in Int : (a + b) + c = a + (b + c)
    OBVIOUS
  <2>5. JoinsAnyOrder(Int, j)
    <3>1. ASSUME NEW a \in Int, NEW b \in Int PROVE j[a][b] \in Int /\ j[a][b] = j[b][a]
      <4>1. j[a][b] = a + b /\ j[b][a] = b + a
        BY <2>2
      <4> QED
        BY <2>3, <4>1
    <3>2. ASSUME NEW a \in Int, NEW b \in Int, NEW c \in Int PROVE j[j[a][b]][c] = j[a][j[b][c]]
      <4>1. PICK x \in Int, y \in Int : x = j[a][b] /\ y = j[b][c]
        BY <3>1
      <4>2. j[x][c] = x + c /\ j[a][y] = a + y
        BY <2>2
      <4>3. x = a + b /\ y = b + c
        BY <2>2, <4>1
      <4> QED
        BY <2>4, <4>1, <4>2, <4>3
    <3> QED
      BY <3>1, <3>2 DEF JoinsAnyOrder
  <2>6. ASSUME NEW a \in MinInt..MaxInt, NEW b \in MinInt..MaxInt PROVE MergesInto(op, "Integer", a, b, j[a][b])
    <3>1. Merge("ADD", Integer(a), Integer(b))
            = IF a + b \in MinInt..MaxInt THEN Merged(Integer(a + b)) ELSE Conflict
      BY IntegersMerge
    <3>2. j[a][b] = a + b
      BY <1>1, <2>2
    <3> QED
      BY <1>4, <3>1, <3>2 DEF MergesInto, Integer, IsMerged, Conflict
  <2> QED
    BY <1>1, <2>5, <2>6 DEF JoinsContents
<1>5. CASE op = "MULTIPLY"
  <2>1. PICK j : j = [a \in Int |-> [b \in Int |-> a * b]]
    OBVIOUS
  <2>2. \A a, b \in Int : j[a][b] = a * b
    BY <2>1
  <2>3. \A a, b \in Int : a * b \in Int /\ a * b = b * a
    OBVIOUS
  <2>4. \A a, b, c \in Int : (a * b) * c = a * (b * c)
    OBVIOUS
  <2>5. JoinsAnyOrder(Int, j)
    <3>1. ASSUME NEW a \in Int, NEW b \in Int PROVE j[a][b] \in Int /\ j[a][b] = j[b][a]
      <4>1. j[a][b] = a * b /\ j[b][a] = b * a
        BY <2>2
      <4> QED
        BY <2>3, <4>1
    <3>2. ASSUME NEW a \in Int, NEW b \in Int, NEW c \in Int PROVE j[j[a][b]][c] = j[a][j[b][c]]
      <4>1. PICK x \in Int, y \in Int : x = j[a][b] /\ y = j[b][c]
        BY <3>1
      <4>2. j[x][c] = x * c /\ j[a][y] = a * y
        BY <2>2
      <4>3. x = a * b /\ y = b * c
        BY <2>2, <4>1
      <4> QED
        BY <2>4, <4>1, <4>2, <4>3
    <3> QED
      BY <3>1, <3>2 DEF JoinsAnyOrder
  <2>6. ASSUME NEW a \in MinInt..MaxInt, NEW b \in MinInt..MaxInt PROVE MergesInto(op, "Integer", a, b, j[a][b])
    <3>1. Merge("MULTIPLY", Integer(a), Integer(b))
            = IF a * b \in MinInt..MaxInt THEN Merged(Integer(a * b)) ELSE Conflict
      BY IntegersMerge
    <3>2. j[a][b] = a * b
      BY <1>1, <2>2
    <3> QED
      BY <1>5, <3>1, <3>2 DEF MergesInto, Integer, IsMerged, Conflict
  <2> QED
    BY <1>1, <2>5, <2>6 DEF JoinsContents
<1> QED
  BY <1>2, <1>3, <1>4, <1>5

\* Sets join: their union or intersection.
LEMMA SetsJoin ==
  ASSUME NEW op \in {"UNION", "INTERSECT"}, NEW type \in {"StringSet", "IntSet"}
  PROVE  \E j : JoinsContents(op, type, j)
<1>4. \A a, b : MergesSets(type, a, b)
  BY SetsMerge
<1>0. PICK C : C = ContentsOf(type)
  OBVIOUS
<1>1. C = ContentsOf(type) /\ (\A a \in Fitted(type) : a \in C) /\ \E S : C = SUBSET S
  <2>1. ContentsOf(type) = IF type = "StringSet" THEN SUBSET Strings ELSE SUBSET Int
    BY DEF ContentsOf
  <2>2. Fitted(type) = IF type = "StringSet" THEN SUBSET Strings ELSE SUBSET (MinInt..MaxInt)
    BY DEF Fitted
  <2>3. SUBSET (MinInt..MaxInt) \subseteq SUBSET Int
    BY IntAssumption
  <2> QED
    BY <1>0, <2>1, <2>2, <2>3
<1>2. CASE op = "UNION"
  <2>1. PICK j : j = [a \in C |-> [b \in C |-> a \cup b]]
    OBVIOUS
  <2>2. \A a, b \in C : j[a][b] = a \cup b
    BY <2>1
  <2>3. \A a, b \in C : a \cup b \in C /\ a \cup b = b \cup a
    BY <1>1
  <2>4. \A a, b, c \in C : (a \cup b) \cup c = a \cup (b \cup c)
    BY <1>1
  <2>5. JoinsAnyOrder(C, j)
    <3>1. ASSUME NEW a \in C, NEW b \in C PROVE j[a][b] \in C /\ j[a][b] = j[b][a]
      <4>1. j[a][b] = a \cup b /\ j[b][a] = b \cup a
        BY <2>2
      <4> QED
        BY <2>3, <4>1
    <3>2. ASSUME NEW a \in C, NEW b \in C, NEW c \in C PROVE j[j[a][b]][c] = j[a][j[b][c]]
      <4>1. PICK x \in C, y \in C : x = j[a][b] /\ y = j[b][c]
        BY <3>1
      <4>2. j[x][c] = x \cup c /\ j[a][y] = a \cup y
        BY <2>2
      <4>3. x = a \cup b /\ y = b \cup c
        BY <2>2, <4>1
      <4> QED
        BY <2>4, <4>1, <4>2, <4>3
    <3> QED
      BY <3>1, <3>2 DEF JoinsAnyOrder
  <2>6. ASSUME NEW a \in Fitted(type), NEW b \in Fitted(type) PROVE MergesInto(op, type, a, b, j[a][b])
    <3>1. Merge("UNION", SetOf(type, a), SetOf(type, b)) = Merged(SetOf(type, a \cup b))
      BY <1>4 DEF MergesSets
    <3>2. j[a][b] = a \cup b
      BY <1>1, <2>2
    <3> QED
      BY <1>2, <3>1, <3>2 DEF MergesInto, SetOf
  <2> QED
    BY <1>1, <2>5, <2>6 DEF JoinsContents
<1>3. CASE op = "INTERSECT"
  <2>1. PICK j : j = [a \in C |-> [b \in C |-> a \cap b]]
    OBVIOUS
  <2>2. \A a, b \in C : j[a][b] = a \cap b
    BY <2>1
  <2>3. \A a, b \in C : a \cap b \in C /\ a \cap b = b \cap a
    BY <1>1
  <2>4. \A a, b, c \in C : (a \cap b) \cap c = a \cap (b \cap c)
    BY <1>1
  <2>5. JoinsAnyOrder(C, j)
    <3>1. ASSUME NEW a \in C, NEW b \in C PROVE j[a][b] \in C /\ j[a][b] = j[b][a]
      <4>1. j[a][b] = a \cap b /\ j[b][a] = b \cap a
        BY <2>2
      <4> QED
        BY <2>3, <4>1
    <3>2. ASSUME NEW a \in C, NEW b \in C, NEW c \in C PROVE j[j[a][b]][c] = j[a][j[b][c]]
      <4>1. PICK x \in C, y \in C : x = j[a][b] /\ y = j[b][c]
        BY <3>1
      <4>2. j[x][c] = x \cap c /\ j[a][y] = a \cap y
        BY <2>2
      <4>3. x = a \cap b /\ y = b \cap c
        BY <2>2, <4>1
      <4> QED
        BY <2>4, <4>1, <4>2, <4>3
    <3> QED
      BY <3>1, <3>2 DEF JoinsAnyOrder
  <2>6. ASSUME NEW a \in Fitted(type), NEW b \in Fitted(type) PROVE MergesInto(op, type, a, b, j[a][b])
    <3>1. Merge("INTERSECT", SetOf(type, a), SetOf(type, b)) = Merged(SetOf(type, a \cap b))
      BY <1>4 DEF MergesSets
    <3>2. j[a][b] = a \cap b
      BY <1>1, <2>2
    <3> QED
      BY <1>3, <3>1, <3>2 DEF MergesInto, SetOf
  <2> QED
    BY <1>1, <2>5, <2>6 DEF JoinsContents
<1> QED
  BY <1>2, <1>3

\* Booleans join: either or both.
LEMMA BooleansJoin ==
  ASSUME NEW op \in {"MAX", "MIN", "UNION", "INTERSECT"}
  PROVE  \E j : JoinsContents(op, "Boolean", j)
<1>1. ContentsOf("Boolean") = BOOLEAN /\ Fitted("Boolean") = BOOLEAN
  BY DEF ContentsOf, Fitted
<1>2. CASE op \in {"MAX", "UNION"}
  <2>1. PICK j : j = [a \in BOOLEAN |-> [b \in BOOLEAN |-> a \/ b]]
    OBVIOUS
  <2>2. \A a, b \in BOOLEAN : j[a][b] = (a \/ b)
    BY <2>1
  <2>3. \A a, b \in BOOLEAN : (a \/ b) \in BOOLEAN /\ (a \/ b) = (b \/ a)
    OBVIOUS
  <2>4. \A a, b, c \in BOOLEAN : ((a \/ b) \/ c) = (a \/ (b \/ c))
    OBVIOUS
  <2>5. JoinsAnyOrder(BOOLEAN, j)
    <3>1. ASSUME NEW a \in BOOLEAN, NEW b \in BOOLEAN PROVE j[a][b] \in BOOLEAN /\ j[a][b] = j[b][a]
      <4>1. j[a][b] = (a \/ b) /\ j[b][a] = (b \/ a)
        BY <2>2
      <4> QED
        BY <2>3, <4>1
    <3>2. ASSUME NEW a \in BOOLEAN, NEW b \in BOOLEAN, NEW c \in BOOLEAN PROVE j[j[a][b]][c] = j[a][j[b][c]]
      <4>1. PICK x \in BOOLEAN, y \in BOOLEAN : x = j[a][b] /\ y = j[b][c]
        BY <3>1
      <4>2. j[x][c] = (x \/ c) /\ j[a][y] = (a \/ y)
        BY <2>2
      <4>3. x = (a \/ b) /\ y = (b \/ c)
        BY <2>2, <4>1
      <4> QED
        BY <2>4, <4>1, <4>2, <4>3
    <3> QED
      BY <3>1, <3>2 DEF JoinsAnyOrder
  <2>6. ASSUME NEW a \in BOOLEAN, NEW b \in BOOLEAN PROVE MergesInto(op, "Boolean", a, b, j[a][b])
    <3>1. /\ Merge("MAX", Boolean(a), Boolean(b)) = Merged(Boolean(a \/ b))
          /\ Merge("UNION", Boolean(a), Boolean(b)) = Merged(Boolean(a \/ b))
      BY BooleansMerge
    <3>2. j[a][b] = (a \/ b)
      BY <1>1, <2>2
    <3> QED
      BY <1>2, <3>1, <3>2 DEF MergesInto, Boolean
  <2> QED
    BY <1>1, <2>5, <2>6 DEF JoinsContents
<1>3. CASE op \in {"MIN", "INTERSECT"}
  <2>1. PICK j : j = [a \in BOOLEAN |-> [b \in BOOLEAN |-> a /\ b]]
    OBVIOUS
  <2>2. \A a, b \in BOOLEAN : j[a][b] = (a /\ b)
    BY <2>1
  <2>3. \A a, b \in BOOLEAN : (a /\ b) \in BOOLEAN /\ (a /\ b) = (b /\ a)
    OBVIOUS
  <2>4. \A a, b, c \in BOOLEAN : ((a /\ b) /\ c) = (a /\ (b /\ c))
    OBVIOUS
  <2>5. JoinsAnyOrder(BOOLEAN, j)
    <3>1. ASSUME NEW a \in BOOLEAN, NEW b \in BOOLEAN PROVE j[a][b] \in BOOLEAN /\ j[a][b] = j[b][a]
      <4>1. j[a][b] = (a /\ b) /\ j[b][a] = (b /\ a)
        BY <2>2
      <4> QED
        BY <2>3, <4>1
    <3>2. ASSUME NEW a \in BOOLEAN, NEW b \in BOOLEAN, NEW c \in BOOLEAN PROVE j[j[a][b]][c] = j[a][j[b][c]]
      <4>1. PICK x \in BOOLEAN, y \in BOOLEAN : x = j[a][b] /\ y = j[b][c]
        BY <3>1
      <4>2. j[x][c] = (x /\ c) /\ j[a][y] = (a /\ y)
        BY <2>2
      <4>3. x = (a /\ b) /\ y = (b /\ c)
        BY <2>2, <4>1
      <4> QED
        BY <2>4, <4>1, <4>2, <4>3
    <3> QED
      BY <3>1, <3>2 DEF JoinsAnyOrder
  <2>6. ASSUME NEW a \in BOOLEAN, NEW b \in BOOLEAN PROVE MergesInto(op, "Boolean", a, b, j[a][b])
    <3>1. /\ Merge("MIN", Boolean(a), Boolean(b)) = Merged(Boolean(a /\ b))
          /\ Merge("INTERSECT", Boolean(a), Boolean(b)) = Merged(Boolean(a /\ b))
      BY BooleansMerge
    <3>2. j[a][b] = (a /\ b)
      BY <1>1, <2>2
    <3> QED
      BY <1>3, <3>1, <3>2 DEF MergesInto, Boolean
  <2> QED
    BY <1>1, <2>5, <2>6 DEF JoinsContents
<1> QED
  BY <1>2, <1>3

\* All that an operation merges joins.
LEMMA ContentsJoin ==
  ASSUME NEW op, NEW t \in Merging(op)
  PROVE  \E j : JoinsContents(op, t, j)
BY IntegersJoin, SetsJoin, BooleansJoin DEF Merging

\* What does not merge is a value of its own.
Mismatched == <<"Mismatched", 0>>
ExactValues == {Null, Mismatched} \cup UNION {{t} \X ContentsOf(t) : t \in ExactTypes}

\* Two values in one: of one type, and of the contents of both.
Matched(op, v, w) == v[1] = w[1] /\ v[1] \in Merging(op)
Joiner(op, t) == CHOOSE j : JoinsContents(op, t, j)
JoinOf(op, v, w) ==
  IF v = Null THEN w ELSE IF w = Null THEN v
  ELSE IF Matched(op, v, w) THEN <<v[1], Joiner(op, v[1])[v[2]][w[2]]>> ELSE Mismatched

\* What values are.
LEMMA ExactForms ==
  ASSUME NEW v \in ExactValues
  PROVE  \/ v = Null
         \/ v = Mismatched
         \/ v[1] \in ExactTypes /\ v[2] \in ContentsOf(v[1]) /\ v = <<v[1], v[2]>>
<1>1. CASE v \in UNION {{t} \X ContentsOf(t) : t \in ExactTypes}
  <2>1. PICK t \in ExactTypes : v \in {t} \X ContentsOf(t)
    BY <1>1
  <2> QED
    BY <2>1
<1> QED
  BY <1>1 DEF ExactValues

\* What values that match are.
LEMMA ExactMatch ==
  ASSUME NEW op, NEW v \in ExactValues, NEW w \in ExactValues, Matched(op, v, w)
  PROVE  /\ v[1] \in ExactTypes /\ v[1] \in Merging(op) /\ w[1] = v[1]
         /\ v[2] \in ContentsOf(v[1]) /\ w[2] \in ContentsOf(v[1])
<1>1. \A t \in Merging(op) : t \in ExactTypes /\ t # "Null" /\ t # "Mismatched"
  BY DEF Merging, ExactTypes
<1>2. Null[1] = "Null" /\ Mismatched[1] = "Mismatched"
  BY DEF Null, Mismatched
<1>3. v[1] = w[1] /\ v[1] \in Merging(op)
  BY DEF Matched
<1>4. v # Null /\ v # Mismatched /\ w # Null /\ w # Mismatched
  BY <1>1, <1>2, <1>3
<1>5. v[2] \in ContentsOf(v[1])
  BY <1>4, ExactForms
<1>6. w[2] \in ContentsOf(w[1])
  BY <1>4, ExactForms
<1> QED
  BY <1>1, <1>3, <1>5, <1>6

\* The join of contents that was chosen is one.
LEMMA JoinerJoins ==
  ASSUME NEW op, NEW t \in Merging(op)
  PROVE  JoinsContents(op, t, Joiner(op, t))
<1>1. \E j : JoinsContents(op, t, j)
  BY ContentsJoin
<1> QED
  BY <1>1, Zenon DEF Joiner

\* Any two values join, in any order, and with nothing to themselves.
LEMMA ValuesJoin ==
  ASSUME NEW op, NEW v \in ExactValues, NEW w \in ExactValues
  PROVE  /\ JoinOf(op, v, w) \in ExactValues /\ JoinOf(op, v, w) = JoinOf(op, w, v)
         /\ JoinOf(op, v, Null) = v /\ JoinOf(op, Null, v) = v
<1>1. JoinOf(op, v, Null) = v /\ JoinOf(op, Null, v) = v
  BY DEF JoinOf
<1>2. CASE v = Null \/ w = Null
  BY <1>2 DEF JoinOf
<1>3. CASE v # Null /\ w # Null /\ Matched(op, v, w)
  <2>1. PICK t, a, b : t = v[1] /\ a = v[2] /\ b = w[2]
    OBVIOUS
  <2>2. t \in ExactTypes /\ t \in Merging(op) /\ w[1] = t /\ a \in ContentsOf(t) /\ b \in ContentsOf(t)
    BY <1>3, <2>1, ExactMatch
  <2>3. PICK j : j = Joiner(op, t)
    OBVIOUS
  <2>4. JoinsContents(op, t, j)
    BY <2>2, <2>3, JoinerJoins
  <2>5. j[a][b] \in ContentsOf(t) /\ j[a][b] = j[b][a]
    BY <2>2, <2>4 DEF JoinsContents, JoinsAnyOrder
  <2>6. Matched(op, w, v)
    BY <2>1, <2>2 DEF Matched
  <2>7. JoinOf(op, v, w) = <<t, j[a][b]>> /\ JoinOf(op, w, v) = <<t, j[b][a]>>
    BY <1>3, <2>1, <2>2, <2>3, <2>6 DEF JoinOf
  <2>8. <<t, j[a][b]>> \in {t} \X ContentsOf(t)
    BY <2>5
  <2>9. <<t, j[a][b]>> \in ExactValues
    BY <2>2, <2>8 DEF ExactValues
  <2> QED
    BY <1>1, <2>5, <2>7, <2>9
<1>4. CASE v # Null /\ w # Null /\ ~Matched(op, v, w)
  <2>1. ~Matched(op, w, v)
    BY <1>4 DEF Matched
  <2>2. JoinOf(op, v, w) = Mismatched /\ JoinOf(op, w, v) = Mismatched
    BY <1>4, <2>1 DEF JoinOf
  <2> QED
    BY <1>1, <2>2 DEF ExactValues
<1> QED
  BY <1>1, <1>2, <1>3, <1>4

\* Values join in any grouping, those that do not match included.
LEMMA ValuesGroup ==
  ASSUME NEW op, NEW u \in ExactValues, NEW v \in ExactValues, NEW w \in ExactValues
  PROVE  JoinOf(op, JoinOf(op, u, v), w) = JoinOf(op, u, JoinOf(op, v, w))
<1>1. CASE u = Null \/ v = Null \/ w = Null
  BY <1>1 DEF JoinOf
<1>2. CASE u # Null /\ v # Null /\ w # Null /\ Matched(op, u, v) /\ Matched(op, v, w)
  <2>1. PICK t, a, b, c : t = u[1] /\ a = u[2] /\ b = v[2] /\ c = w[2]
    OBVIOUS
  <2>2. t \in Merging(op) /\ v[1] = t /\ a \in ContentsOf(t) /\ b \in ContentsOf(t)
    BY <1>2, <2>1, ExactMatch
  <2>3. w[1] = t /\ c \in ContentsOf(t)
    BY <1>2, <2>1, <2>2, ExactMatch
  <2>4. PICK j : j = Joiner(op, t)
    OBVIOUS
  <2>5. JoinsAnyOrder(ContentsOf(t), j)
    BY <2>2, <2>4, JoinerJoins DEF JoinsContents
  <2>6. j[j[a][b]][c] = j[a][j[b][c]]
    BY <2>2, <2>3, <2>5 DEF JoinsAnyOrder
  <2>7. PICK x, y : x = <<t, j[a][b]>> /\ y = <<t, j[b][c]>>
    OBVIOUS
  <2>8. x[1] = t /\ x[2] = j[a][b] /\ y[1] = t /\ y[2] = j[b][c]
    BY <2>7
  <2>9. JoinOf(op, u, v) = x /\ JoinOf(op, v, w) = y
    BY <1>2, <2>1, <2>2, <2>3, <2>4, <2>7 DEF JoinOf
  <2>10. x # Null /\ y # Null
    <3>1. t # "Null" /\ Null[1] = "Null"
      BY <2>2 DEF Merging, Null
    <3> QED
      BY <2>8, <3>1
  <2>11. Matched(op, x, w) /\ Matched(op, u, y)
    BY <2>1, <2>2, <2>3, <2>8 DEF Matched
  <2>12. JoinOf(op, x, w) = <<t, j[j[a][b]][c]>> /\ JoinOf(op, u, y) = <<t, j[a][j[b][c]]>>
    BY <1>2, <2>1, <2>2, <2>3, <2>4, <2>8, <2>10, <2>11 DEF JoinOf
  <2> QED
    BY <2>6, <2>9, <2>12
<1>3. CASE u # Null /\ v # Null /\ w # Null /\ ~(Matched(op, u, v) /\ Matched(op, v, w))
  <2>1. "Mismatched" \notin Merging(op) /\ "Null" \notin Merging(op) /\ Mismatched[1] = "Mismatched" /\ Null[1] = "Null"
    BY DEF Merging, Mismatched, Null
  <2>2. Mismatched # Null
    BY <2>1
  <2>3. PICK x, y : x = JoinOf(op, u, v) /\ y = JoinOf(op, v, w)
    OBVIOUS
  <2>4. x # Null /\ ~Matched(op, x, w)
    <3>1. CASE Matched(op, u, v)
      <4>1. x = <<u[1], Joiner(op, u[1])[u[2]][v[2]]>>
        BY <1>3, <2>3, <3>1 DEF JoinOf
      <4>2. x[1] = u[1] /\ u[1] = v[1] /\ u[1] \in Merging(op)
        BY <3>1, <4>1 DEF Matched
      <4>3. ~Matched(op, v, w)
        BY <1>3, <3>1
      <4> QED
        BY <2>1, <4>2, <4>3 DEF Matched
    <3>2. CASE ~Matched(op, u, v)
      <4>1. x = Mismatched
        BY <1>3, <2>3, <3>2 DEF JoinOf
      <4> QED
        BY <2>1, <2>2, <4>1 DEF Matched
    <3> QED
      BY <3>1, <3>2
  <2>5. y # Null /\ ~Matched(op, u, y)
    <3>1. CASE Matched(op, v, w)
      <4>1. y = <<v[1], Joiner(op, v[1])[v[2]][w[2]]>>
        BY <1>3, <2>3, <3>1 DEF JoinOf
      <4>2. y[1] = v[1] /\ v[1] = w[1] /\ v[1] \in Merging(op)
        BY <3>1, <4>1 DEF Matched
      <4>3. ~Matched(op, u, v)
        BY <1>3, <3>1
      <4> QED
        BY <2>1, <4>2, <4>3 DEF Matched
    <3>2. CASE ~Matched(op, v, w)
      <4>1. y = Mismatched
        BY <1>3, <2>3, <3>2 DEF JoinOf
      <4> QED
        BY <2>1, <2>2, <4>1 DEF Matched
    <3> QED
      BY <3>1, <3>2
  <2>6. JoinOf(op, x, w) = Mismatched /\ JoinOf(op, u, y) = Mismatched
    BY <1>3, <2>4, <2>5 DEF JoinOf
  <2> QED
    BY <2>3, <2>6
<1> QED
  BY <1>1, <1>2, <1>3

\* The values that are exact in a run: all but the floats.
Exact == {v \in AlgebraicValue : v[1] # "Float"}

\* Values of the code that are no floats are such values.
LEMMA ExactAreExact ==
  ASSUME NEW v \in Exact
  PROVE  v \in ExactValues /\ (v # Null => v[1] \in ExactTypes /\ v[2] \in Fitted(v[1]) /\ v = <<v[1], v[2]>>)
<1>1. CASE v = Null
  BY <1>1 DEF ExactValues
<1>2. CASE v # Null
  <2>1. v = <<v[1], v[2]>> /\ v[1] \in ExactTypes
    <3>1. v[1] # "Null"
      BY <1>2, ValueTypes DEF Exact, IsNull
    <3> QED
      BY <3>1, ValueForms DEF Exact, ExactTypes
  <2>1a. v[2] \in Fitted(v[1])
    <3>1. /\ v[1] = "Integer" => v[2] \in MinInt..MaxInt
          /\ v[1] = "StringSet" => v[2] \subseteq Strings
          /\ v[1] = "IntSet" => v[2] \subseteq MinInt..MaxInt
          /\ v[1] = "Boolean" => v[2] \in BOOLEAN
      BY ValueTypes DEF Exact
    <3> QED
      BY <2>1, <3>1 DEF Fitted, ExactTypes
  <2>2. v[2] \in ContentsOf(v[1])
    BY <2>1, <2>1a, IntAssumption DEF Fitted, ContentsOf, ExactTypes
  <2>3. v \in {v[1]} \X ContentsOf(v[1])
    BY <2>1, <2>2
  <2> QED
    BY <2>1, <2>1a, <2>3 DEF ExactValues
<1> QED
  BY <1>1, <1>2

\* What merges, merges to both in one.
LEMMA MergeJoins ==
  ASSUME FloatsRound, NEW op \in OpType, NEW v \in Exact, NEW w \in Exact, NEW r, r = Merge(op, v, w), IsMerged(r)
  PROVE  r.value \in Exact /\ r.value = JoinOf(op, v, w)
<1>1. r.value \in AlgebraicValue
  BY MergeTypes DEF Exact
<1>2. CASE v = Null
  <2>1. r = Merged(w)
    BY <1>2 DEF Merge, IsNull, Null
  <2> QED
    BY <1>2, <2>1 DEF Merged, JoinOf
<1>3. CASE v # Null /\ w = Null
  <2>1. v[1] # "Null"
    BY <1>3, ValueTypes DEF Exact, IsNull
  <2>2. r = Merged(v)
    BY <1>3, <2>1 DEF Merge, IsNull, Null
  <2> QED
    BY <1>3, <2>2 DEF Merged, JoinOf
<1>4. CASE v # Null /\ w # Null
  <2>1. PICK t, a, s, b : t = v[1] /\ a = v[2] /\ s = w[1] /\ b = w[2]
    OBVIOUS
  <2>2. /\ t \in ExactTypes /\ a \in Fitted(t) /\ v = <<t, a>>
        /\ s \in ExactTypes /\ b \in Fitted(s) /\ w = <<s, b>>
    BY <1>4, <2>1, ExactAreExact
  <2>3. t = s /\ t \in Merging(op)
    BY <2>1, <2>2 DEF Merge, MergeMax, MergeMin, MergeUnion, MergeIntersect, MergeAdd, MergeMultiply,
         IsNull, IsNumeric, HaveType, TypeMismatch, Conflict, IsMerged, Merging, ExactTypes
  <2>4. JoinsContents(op, t, Joiner(op, t))
    BY <2>3, JoinerJoins
  <2>5. MergesInto(op, t, a, b, Joiner(op, t)[a][b])
    BY <2>2, <2>3, <2>4 DEF JoinsContents
  <2>6. r = Merged(<<t, Joiner(op, t)[a][b]>>)
    BY <2>2, <2>3, <2>5 DEF MergesInto
  <2>7. r.value = <<t, Joiner(op, t)[a][b]>>
    BY <2>6 DEF Merged
  <2>8. Matched(op, v, w)
    BY <2>1, <2>3 DEF Matched
  <2>9. JoinOf(op, v, w) = r.value
    BY <1>4, <2>1, <2>7, <2>8 DEF JoinOf
  <2>10. r.value[1] # "Float"
    BY <2>2, <2>7 DEF ExactTypes
  <2> QED
    BY <1>1, <2>9, <2>10 DEF Exact
<1> QED
  BY <1>2, <1>3, <1>4

-----------------------------------------------------------------------------
(* What the operations of a key come to                                     *)

\* What an operation is to a key: nothing, if it is of another.
PartOf(o, k) == IF o.key = k THEN o.value ELSE Null
ExactOperations == {o \in AlgebraicOperation : o.value \in Exact}

\* What N operations come to, one after the other, and all of them.
Folds(op, k, list, N, p) ==
  /\ p \in [0..N -> ExactValues] /\ p[0] = Null
  /\ \A i \in 1..N : p[i] = JoinOf(op, p[i - 1], PartOf(list[i], k))
FoldsTo(op, k, list, y) == \E p : Folds(op, k, list, Len(list), p) /\ y = p[Len(list)]

\* What an operation is to a key is a value.
LEMMA PartsExact ==
  ASSUME NEW o \in ExactOperations, NEW k
  PROVE  PartOf(o, k) \in ExactValues
<1>1. o.value \in ExactValues
  BY ExactAreExact DEF ExactOperations
<1> QED
  BY <1>1 DEF PartOf, ExactValues

\* Operations come to a value.
LEMMA FoldsHas ==
  ASSUME NEW op, NEW k, NEW list \in Seq(ExactOperations)
  PROVE  \E y \in ExactValues : FoldsTo(op, k, list, y)
<1>1. PICK N \in Nat : N = Len(list)
  OBVIOUS
<1>2. PICK none \in ExactValues : none = Null
  BY DEF ExactValues
<1>3. ASSUME NEW i \in 1..N PROVE PartOf(list[i], k) \in ExactValues
  BY <1>1, PartsExact
<1>4. PICK step : step = [i \in 1..N |-> [v \in ExactValues |-> JoinOf(op, v, PartOf(list[i], k))]]
  OBVIOUS
<1>5. step \in [1..N -> [ExactValues -> ExactValues]]
  BY <1>3, <1>4, ValuesJoin
<1> DEFINE p == Iteration(ExactValues, none, N, step)
<1>6. p \in [0..N -> ExactValues] /\ p[0] = none /\ \A i \in 1..N : p[i] = step[i][p[i - 1]]
  BY <1>5, Iterates
<1> HIDE DEF p
<1>7. ASSUME NEW i \in 1..N PROVE p[i] = JoinOf(op, p[i - 1], PartOf(list[i], k))
  <2>1. p[i - 1] \in ExactValues
    BY <1>6
  <2> QED
    BY <1>4, <1>6, <2>1
<1>8. Folds(op, k, list, N, p)
  BY <1>2, <1>6, <1>7 DEF Folds
<1>9. p[N] \in ExactValues
  BY <1>6
<1> QED
  BY <1>1, <1>8, <1>9 DEF FoldsTo

\* Operations of other keys come to nothing.
LEMMA FoldsNone ==
  ASSUME NEW op, NEW k, NEW list, Len(list) \in Nat, \A i \in 1..Len(list) : list[i].key # k
  PROVE  FoldsTo(op, k, list, Null)
<1>1. PICK N \in Nat : N = Len(list)
  OBVIOUS
<1>2. PICK p : p = [i \in 0..N |-> Null]
  OBVIOUS
<1>3. JoinOf(op, Null, Null) = Null /\ Null \in ExactValues
  BY DEF JoinOf, ExactValues
<1>4. ASSUME NEW i \in 1..N PROVE p[i] = JoinOf(op, p[i - 1], PartOf(list[i], k))
  <2>1. PartOf(list[i], k) = Null
    BY <1>1 DEF PartOf
  <2>2. p[i] = Null /\ p[i - 1] = Null
    BY <1>2
  <2> QED
    BY <1>3, <2>1, <2>2
<1>5. Folds(op, k, list, N, p) /\ p[N] = Null
  BY <1>2, <1>3, <1>4 DEF Folds
<1> QED
  BY <1>1, <1>5 DEF FoldsTo

\* Where one operation is of the key, it is all there is.
LEMMA FoldsOne ==
  ASSUME NEW op, NEW k, NEW list \in Seq(ExactOperations), NEW j \in 1..Len(list), list[j].key = k,
         \A i \in 1..Len(list) : i # j => list[i].key # k
  PROVE  FoldsTo(op, k, list, list[j].value)
<1>1. PICK N \in Nat : N = Len(list)
  OBVIOUS
<1>2. PICK x : x = list[j].value
  OBVIOUS
<1>3. x \in ExactValues /\ Null \in ExactValues
  <2>1. PartOf(list[j], k) \in ExactValues
    BY PartsExact
  <2> QED
    BY <1>2, <2>1 DEF PartOf, ExactValues
<1>4. /\ JoinOf(op, Null, Null) = Null /\ JoinOf(op, Null, x) = x /\ JoinOf(op, x, Null) = x
  BY <1>3, ValuesJoin
<1>5. PICK p : p = [i \in 0..N |-> IF i < j THEN Null ELSE x]
  OBVIOUS
<1>6. ASSUME NEW i \in 1..N PROVE p[i] = JoinOf(op, p[i - 1], PartOf(list[i], k))
  <2>1. CASE i < j
    <3>1. p[i] = Null /\ p[i - 1] = Null /\ PartOf(list[i], k) = Null
      BY <1>1, <1>5, <2>1 DEF PartOf
    <3> QED
      BY <1>4, <3>1
  <2>2. CASE i = j
    <3>1. p[i] = x /\ p[i - 1] = Null /\ PartOf(list[i], k) = x
      BY <1>1, <1>2, <1>5, <2>2 DEF PartOf
    <3> QED
      BY <1>4, <3>1
  <2>3. CASE i > j
    <3>1. p[i] = x /\ p[i - 1] = x /\ PartOf(list[i], k) = Null
      BY <1>1, <1>5, <2>3 DEF PartOf
    <3> QED
      BY <1>4, <3>1
  <2> QED
    BY <1>1, <2>1, <2>2, <2>3
<1>7. p \in [0..N -> ExactValues] /\ p[0] = Null /\ p[N] = x
  BY <1>1, <1>3, <1>5
<1>8. Folds(op, k, list, N, p)
  BY <1>6, <1>7 DEF Folds
<1> QED
  BY <1>1, <1>2, <1>7, <1>8 DEF FoldsTo

\* Operations come to one value.
LEMMA FoldsOnce ==
  ASSUME NEW op, NEW k, NEW list, Len(list) \in Nat, NEW x, NEW y, FoldsTo(op, k, list, x), FoldsTo(op, k, list, y)
  PROVE  x = y
<1>1. PICK N \in Nat : N = Len(list)
  OBVIOUS
<1>2. PICK p : Folds(op, k, list, N, p) /\ x = p[N]
  BY <1>1 DEF FoldsTo
<1>3. PICK q : Folds(op, k, list, N, q) /\ y = q[N]
  BY <1>1 DEF FoldsTo
<1> DEFINE G == {i \in 0..N : p[i] = q[i]}
<1>4. 0 \in G
  BY <1>2, <1>3 DEF Folds
<1>5. ASSUME NEW i \in 1..N, i - 1 \in G PROVE i \in G
  BY <1>2, <1>3, <1>5 DEF Folds
<1>6. N \in G
  <2> HIDE DEF G
  <2>1. \A i \in 1..N : i - 1 \in G => i \in G
    BY <1>5
  <2>2. 0..N \subseteq G
    BY <1>4, <2>1, NaturalSteps
  <2> QED
    BY <2>2
<1> QED
  BY <1>2, <1>3, <1>6

\* Lists one after the other come to both in one.
LEMMA FoldsBoth ==
  ASSUME NEW op, NEW k, NEW a \in Seq(ExactOperations), NEW b \in Seq(ExactOperations),
         NEW x, NEW y, FoldsTo(op, k, a, x), FoldsTo(op, k, b, y)
  PROVE  FoldsTo(op, k, a \o b, JoinOf(op, x, y))
<1>1. PICK n \in Nat, m \in Nat : n = Len(a) /\ m = Len(b)
  OBVIOUS
<1>2. PICK p : Folds(op, k, a, n, p) /\ x = p[n]
  BY <1>1 DEF FoldsTo
<1>3. PICK q : Folds(op, k, b, m, q) /\ y = q[m]
  BY <1>1 DEF FoldsTo
<1>4. PICK c : c = a \o b
  OBVIOUS
<1>5. /\ Len(c) = n + m /\ \A i \in 1..n : c[i] = a[i]
      /\ \A i \in 1..m : c[n + i] = b[i]
  BY <1>1, <1>4
<1>6. PICK r : r = [i \in 0..(n + m) |-> IF i <= n THEN p[i] ELSE JoinOf(op, x, q[i - n])]
  OBVIOUS
<1>7. x \in ExactValues /\ (\A i \in 0..n : p[i] \in ExactValues) /\ (\A i \in 0..m : q[i] \in ExactValues)
  BY <1>2, <1>3 DEF Folds
<1>8. ASSUME NEW i \in 0..m PROVE r[n + i] = JoinOf(op, x, q[i])
  <2>1. CASE i = 0
    <3>1. r[n + i] = x
      BY <1>2, <1>6, <2>1
    <3>2. q[i] = Null
      BY <1>3, <2>1 DEF Folds
    <3> QED
      BY <1>7, <3>1, <3>2, ValuesJoin
  <2>2. CASE i # 0
    <3>1. n + i \in 0..(n + m) /\ ~(n + i <= n) /\ (n + i) - n = i
      BY <2>2
    <3> QED
      BY <1>6, <3>1
  <2> QED
    BY <2>1, <2>2
<1>9. ASSUME NEW i \in 1..(n + m) PROVE r[i] = JoinOf(op, r[i - 1], PartOf(c[i], k))
  <2>1. CASE i <= n
    <3>1. r[i] = p[i] /\ r[i - 1] = p[i - 1] /\ c[i] = a[i]
      BY <1>5, <1>6, <2>1
    <3>2. p[i] = JoinOf(op, p[i - 1], PartOf(a[i], k))
      BY <1>2, <2>1 DEF Folds
    <3> QED
      BY <3>1, <3>2
  <2>2. CASE ~(i <= n)
    <3>1. PICK j \in 1..m : i = n + j
      <4>1. i - n \in 1..m /\ i = n + (i - n)
        BY <2>2
      <4> QED
        BY <4>1
    <3>2. q[j] = JoinOf(op, q[j - 1], PartOf(b[j], k))
      BY <1>3 DEF Folds
    <3>3. j \in 0..m /\ j - 1 \in 0..m /\ n + (j - 1) = i - 1
      BY <3>1
    <3>4. r[i] = JoinOf(op, x, q[j])
      BY <1>8, <3>1, <3>3
    <3>5. r[i - 1] = JoinOf(op, x, q[j - 1])
      BY <1>8, <3>3
    <3>6. c[i] = b[j]
      BY <1>5, <3>1
    <3>7. b[j] \in ExactOperations
      BY <1>1
    <3>8. JoinOf(op, JoinOf(op, x, q[j - 1]), PartOf(b[j], k)) = JoinOf(op, x, JoinOf(op, q[j - 1], PartOf(b[j], k)))
      BY <1>7, <3>3, <3>7, PartsExact, ValuesGroup
    <3> QED
      BY <3>2, <3>4, <3>5, <3>6, <3>8
  <2> QED
    BY <2>1, <2>2
<1>10. r \in [0..(n + m) -> ExactValues]
  <2>1. ASSUME NEW i \in 0..(n + m) PROVE r[i] \in ExactValues
    <3>1. CASE i <= n
      <4>1. r[i] = p[i] /\ i \in 0..n
        BY <1>6, <3>1
      <4> QED
        BY <1>7, <4>1
    <3>2. CASE ~(i <= n)
      <4>1. PICK z \in ExactValues : r[i] = JoinOf(op, x, z)
        BY <1>6, <1>7, <3>2
      <4>2. JoinOf(op, x, z) \in ExactValues
        BY <1>7, ValuesJoin
      <4> QED
        BY <4>1, <4>2
    <3> QED
      BY <3>1, <3>2
  <2>2. r = [i \in 0..(n + m) |-> r[i]]
    BY <1>6
  <2> QED
    BY <2>1, <2>2
<1>11. r[0] = Null
  BY <1>2, <1>6 DEF Folds
<1>12. Folds(op, k, c, n + m, r)
  BY <1>9, <1>10, <1>11 DEF Folds
<1>13. r[n + m] = JoinOf(op, x, y)
  BY <1>3, <1>8
<1> QED
  BY <1>4, <1>5, <1>12, <1>13 DEF FoldsTo

\* What is in a list.
Elements(q) == {q[i] : i \in 1..Len(q)}

\* What a concatenation holds at which place.
LEMMA ConcatHas ==
  ASSUME NEW S, NEW a \in Seq(S), NEW b \in Seq(S), NEW c, c = a \o b, NEW n, n = Len(a), NEW m, m = Len(b)
  PROVE  /\ c \in Seq(S) /\ n \in Nat /\ m \in Nat /\ Len(c) = n + m
         /\ \A i \in 1..n : c[i] = a[i]
         /\ \A i \in 1..m : c[n + i] = b[i]
OBVIOUS

\* A concatenation has the elements of both.
LEMMA ElementsJoined ==
  ASSUME NEW S, NEW a \in Seq(S), NEW b \in Seq(S)
  PROVE  Elements(a \o b) = Elements(a) \cup Elements(b)
<1>1. PICK n \in Nat, m \in Nat : n = Len(a) /\ m = Len(b)
  OBVIOUS
<1>2. PICK c : c = a \o b
  OBVIOUS
<1>3. /\ Len(c) = n + m /\ \A i \in 1..n : c[i] = a[i]
      /\ \A i \in 1..m : c[n + i] = b[i]
  BY <1>1, <1>2
<1>4. ASSUME NEW x \in Elements(c) PROVE x \in Elements(a) \cup Elements(b)
  <2>1. PICK i \in 1..(n + m) : x = c[i]
    BY <1>3 DEF Elements
  <2>2. CASE i <= n
    <3>1. i \in 1..n /\ x = a[i]
      BY <1>3, <2>1, <2>2
    <3> QED
      BY <1>1, <3>1 DEF Elements
  <2>3. CASE ~(i <= n)
    <3>1. PICK j \in 1..m : i = n + j
      <4>1. i - n \in 1..m /\ i = n + (i - n)
        BY <2>3
      <4> QED
        BY <4>1
    <3>2. x = b[j]
      BY <1>3, <2>1, <3>1
    <3> QED
      BY <1>1, <3>2 DEF Elements
  <2> QED
    BY <2>2, <2>3
<1>5. ASSUME NEW x \in Elements(a) PROVE x \in Elements(c)
  <2>1. PICK i \in 1..n : x = a[i]
    BY <1>1, <1>5 DEF Elements
  <2>2. i \in 1..(n + m) /\ x = c[i]
    BY <1>3, <2>1
  <2> QED
    BY <1>3, <2>2 DEF Elements
<1>6. ASSUME NEW x \in Elements(b) PROVE x \in Elements(c)
  <2>1. PICK i \in 1..m : x = b[i]
    BY <1>1, <1>6 DEF Elements
  <2>2. n + i \in 1..(n + m) /\ x = c[n + i]
    BY <1>3, <2>1
  <2> QED
    BY <1>3, <2>2 DEF Elements
<1> QED
  BY <1>2, <1>4, <1>5, <1>6

\* A list of one.
LEMMA ElementsOfOne == ASSUME NEW x PROVE Elements(<<x>>) = {x}
<1>1. PICK q : q = <<x>>
  OBVIOUS
<1>2. Len(q) = 1 /\ q[1] = x
  BY <1>1
<1>3. Elements(q) = {x}
  BY <1>2 DEF Elements
<1> QED
  BY <1>1, <1>3

\* Of the places of a list, there is what is there.
LEMMA ElementsAt ==
  ASSUME NEW S, NEW s \in Seq(S), NEW places \in SUBSET (1..Len(s))
  PROVE  Elements(At(s, places)) = {s[i] : i \in places} /\ At(s, places) \in Seq(S)
<1>1. PICK N \in Nat : N = Len(s)
  OBVIOUS
<1>2. GrowsAt(S, s, places, N)
  BY <1>1, ElementsGrow
<1> DEFINE G == {m \in 0..N : Elements(FirstAt(s, places, m)) = {s[i] : i \in places \cap (1..m)}}
<1>3. 0 \in G
  <2>1. Elements(<<>>) = {}
    BY DEF Elements
  <2>2. FirstAt(s, places, 0) = <<>>
    BY <1>2 DEF GrowsAt
  <2>3. {s[i] : i \in places \cap (1..0)} = {}
    OBVIOUS
  <2> QED
    BY <2>1, <2>2, <2>3
<1>4. ASSUME NEW m \in 1..N, m - 1 \in G PROVE m \in G
  <2>1. PICK a, b : a = FirstAt(s, places, m - 1) /\ b = FirstAt(s, places, m)
    OBVIOUS
  <2>2. Elements(a) = {s[i] : i \in places \cap (1..(m - 1))}
    BY <1>4, <2>1
  <2>3. a \in Seq(S) /\ (m \in places => b = a \o <<s[m]>>) /\ (m \notin places => b = a)
    <3>1. m - 1 \in 0..N
      OBVIOUS
    <3> QED
      BY <1>2, <2>1, <3>1 DEF GrowsAt
  <2>4. CASE m \in places
    <3>1. PICK one : one = <<s[m]>>
      OBVIOUS
    <3>2. one \in Seq(S) /\ Elements(one) = {s[m]}
      BY <1>1, <3>1, ElementsOfOne
    <3>3. Elements(b) = Elements(a) \cup {s[m]}
      <4>1. b = a \o one
        BY <2>3, <2>4, <3>1
      <4>2. Elements(a \o one) = Elements(a) \cup Elements(one)
        BY <2>3, <3>2, ElementsJoined
      <4> QED
        BY <3>2, <4>1, <4>2
    <3>4. places \cap (1..m) = (places \cap (1..(m - 1))) \cup {m}
      BY <2>4
    <3>5. Elements(b) = {s[i] : i \in places \cap (1..m)}
      BY <2>2, <3>3, <3>4
    <3> QED
      BY <2>1, <3>5
  <2>5. CASE m \notin places
    <3>1. places \cap (1..m) = places \cap (1..(m - 1))
      BY <2>5
    <3>2. b = a
      BY <2>3, <2>5
    <3>3. Elements(b) = {s[i] : i \in places \cap (1..m)}
      BY <2>2, <3>1, <3>2
    <3> QED
      BY <2>1, <3>3
  <2> QED
    BY <2>4, <2>5
<1>5. N \in G
  <2> HIDE DEF G
  <2>1. \A m \in 1..N : m - 1 \in G => m \in G
    BY <1>4
  <2>2. 0..N \subseteq G
    BY <1>3, <2>1, NaturalSteps
  <2> QED
    BY <2>2
<1>6. FirstAt(s, places, N) = At(s, places)
  <2>1. places \cap (1..N) = places
    BY <1>1
  <2> QED
    BY <2>1 DEF FirstAt
<1>7. FirstAt(s, places, N) \in Seq(S)
  BY <1>2 DEF GrowsAt
<1>8. places \cap (1..N) = places
  BY <1>1
<1> QED
  BY <1>5, <1>6, <1>7, <1>8

\* The operations of a key, and nothing else.
LEMMA ForKeyIs ==
  ASSUME NEW S, NEW ops \in Seq(S), NEW k
  PROVE  ForKey(ops, k) = At(ops, {i \in 1..Len(ops) : ops[i].key = k})
<1>1. PICK N \in Nat : N = Len(ops) /\ DOMAIN ops = 1..N
  OBVIOUS
<1>2. PICK places : places = {i \in 1..N : ops[i].key = k}
  OBVIOUS
<1>3. [i \in DOMAIN ops |-> IF ops[i].key = k THEN <<ops[i]>> ELSE <<>>]
        = [i \in DOMAIN ops |-> IF i \in places THEN <<ops[i]>> ELSE <<>>]
  BY <1>1, <1>2
<1> QED
  BY <1>1, <1>2, <1>3, Zenon DEF ForKey, At

\* The operations of a key, all of them.
LEMMA ForKeyHas ==
  ASSUME NEW S, NEW ops \in Seq(S), NEW k
  PROVE  /\ ForKey(ops, k) \in Seq(S)
         /\ Elements(ForKey(ops, k)) = {o \in Elements(ops) : o.key = k}
<1>1. PICK places \in SUBSET (1..Len(ops)) : places = {i \in 1..Len(ops) : ops[i].key = k}
  OBVIOUS
<1>2. ForKey(ops, k) = At(ops, places)
  BY <1>1, ForKeyIs
<1>3. Elements(ForKey(ops, k)) = {ops[i] : i \in places} /\ ForKey(ops, k) \in Seq(S)
  BY <1>2, ElementsAt
<1>4. {ops[i] : i \in places} = {o \in Elements(ops) : o.key = k}
  BY <1>1 DEF Elements
<1> QED
  BY <1>3, <1>4

\* They come to what the whole list comes to for the key.
LEMMA ForKeyFolds ==
  ASSUME NEW op, NEW k, NEW ops \in Seq(ExactOperations), NEW y, FoldsTo(op, k, ops, y)
  PROVE  FoldsTo(op, k, ForKey(ops, k), y)
<1>1. PICK N \in Nat : N = Len(ops)
  OBVIOUS
<1>2. PICK places \in SUBSET (1..N) : places = {i \in 1..N : ops[i].key = k}
  OBVIOUS
<1>3. ForKey(ops, k) = At(ops, places)
  BY <1>1, <1>2, ForKeyIs
<1>4. PICK p : Folds(op, k, ops, N, p) /\ y = p[N]
  BY <1>1 DEF FoldsTo
<1>5. GrowsAt(ExactOperations, ops, places, N)
  BY <1>1, ElementsGrow
<1> DEFINE G == {m \in 0..N : FoldsTo(op, k, FirstAt(ops, places, m), p[m])}
<1>6. 0 \in G
  <2>1. FirstAt(ops, places, 0) = <<>>
    BY <1>5 DEF GrowsAt
  <2>2. PICK none : none = <<>>
    OBVIOUS
  <2>3. Len(none) \in Nat /\ \A i \in 1..Len(none) : none[i].key # k
    BY <2>2
  <2>4. FoldsTo(op, k, none, Null)
    BY <2>3, FoldsNone
  <2>5. p[0] = Null
    BY <1>4 DEF Folds
  <2> QED
    BY <2>1, <2>2, <2>4, <2>5
<1>7. ASSUME NEW m \in 1..N, m - 1 \in G PROVE m \in G
  <2>1. PICK a, b : a = FirstAt(ops, places, m - 1) /\ b = FirstAt(ops, places, m)
    OBVIOUS
  <2>2. FoldsTo(op, k, a, p[m - 1])
    BY <1>7, <2>1
  <2>3. a \in Seq(ExactOperations) /\ (m \in places => b = a \o <<ops[m]>>) /\ (m \notin places => b = a)
    <3>1. m - 1 \in 0..N
      OBVIOUS
    <3> QED
      BY <1>5, <2>1, <3>1 DEF GrowsAt
  <2>4. p[m] = JoinOf(op, p[m - 1], PartOf(ops[m], k)) /\ p[m - 1] \in ExactValues
    BY <1>4 DEF Folds
  <2>5. CASE m \in places
    <3>1. PICK one : one = <<ops[m]>>
      OBVIOUS
    <3>2. ops[m] \in ExactOperations /\ ops[m].key = k
      BY <1>1, <1>2, <2>5
    <3>3. one \in Seq(ExactOperations) /\ Len(one) = 1 /\ one[1] = ops[m]
      BY <3>1, <3>2
    <3>4. FoldsTo(op, k, one, one[1].value)
      <4>1. 1 \in 1..Len(one) /\ one[1].key = k /\ \A i \in 1..Len(one) : i # 1 => one[i].key # k
        BY <3>2, <3>3
      <4> QED
        BY <3>3, <4>1, FoldsOne
    <3>5. FoldsTo(op, k, a \o one, JoinOf(op, p[m - 1], one[1].value))
      BY <2>2, <2>3, <3>3, <3>4, FoldsBoth
    <3>6. PartOf(ops[m], k) = ops[m].value
      BY <3>2 DEF PartOf
    <3>7. FoldsTo(op, k, b, p[m])
      BY <2>3, <2>4, <2>5, <3>1, <3>3, <3>5, <3>6
    <3> QED
      BY <2>1, <3>7
  <2>6. CASE m \notin places
    <3>1. PartOf(ops[m], k) = Null
      BY <1>2, <2>6 DEF PartOf
    <3>2. p[m] = p[m - 1]
      BY <2>4, <3>1, ValuesJoin
    <3> QED
      BY <2>1, <2>2, <2>3, <2>6, <3>2
  <2> QED
    BY <2>5, <2>6
<1>8. N \in G
  <2> HIDE DEF G
  <2>1. \A m \in 1..N : m - 1 \in G => m \in G
    BY <1>7
  <2>2. 0..N \subseteq G
    BY <1>6, <2>1, NaturalSteps
  <2> QED
    BY <2>2
<1>9. FirstAt(ops, places, N) = At(ops, places)
  <2>1. places \cap (1..N) = places
    OBVIOUS
  <2> QED
    BY <2>1 DEF FirstAt
<1> QED
  BY <1>3, <1>4, <1>8, <1>9

-----------------------------------------------------------------------------
(* What merge_operations_for_key folds operations to                        *)

Continued(ops, r, i) == IF IsMerged(r) THEN Merge(ops[i].op, r.value, ops[i].value) ELSE r
Outcomes(ops, N, q) ==
  q = [i \in 1..N |-> IF i = 1 THEN Merged(ops[1].value) ELSE Continued(ops, q[i - 1], i)]

\* There are outcomes up to the last operation.
LEMMA OutcomesHas ==
  ASSUME NEW ops, NEW N \in Nat
  PROVE  \E q : Outcomes(ops, N, q)
<1> DEFINE G == {k \in 0..N : \E q : Outcomes(ops, k, q)}
<1>1. 0 \in G
  <2>1. PICK q : q = [i \in 1..0 |-> Null]
    OBVIOUS
  <2>2. q = [i \in 1..0 |-> IF i = 1 THEN Merged(ops[1].value) ELSE Continued(ops, q[i - 1], i)]
    BY <2>1
  <2>3. Outcomes(ops, 0, q)
    BY <2>2, Zenon DEF Outcomes
  <2> QED
    BY <2>3
<1>2. ASSUME NEW k \in 1..N, k - 1 \in G PROVE k \in G
  <2>1. PICK f : Outcomes(ops, k - 1, f)
    BY <1>2
  <2>2. PICK r : r = (IF k = 1 THEN Merged(ops[1].value) ELSE Continued(ops, f[k - 1], k))
    OBVIOUS
  <2>3. PICK g : g = [i \in 1..k |-> IF i = k THEN r ELSE f[i]]
    OBVIOUS
  <2>4. ASSUME NEW i \in 1..k
        PROVE  g[i] = (IF i = 1 THEN Merged(ops[1].value) ELSE Continued(ops, g[i - 1], i))
    <3>1. i # 1 => g[i - 1] = f[i - 1]
      BY <2>3
    <3>2. CASE i = k
      <4>1. g[i] = r
        BY <2>3, <3>2
      <4> QED
        BY <2>2, <3>1, <3>2, <4>1
    <3>3. CASE i # k
      <4>1. i \in 1..(k - 1)
        BY <3>3
      <4>2. f[i] = (IF i = 1 THEN Merged(ops[1].value) ELSE Continued(ops, f[i - 1], i))
        BY <2>1, <4>1 DEF Outcomes
      <4>3. g[i] = f[i]
        BY <2>3, <3>3
      <4> QED
        BY <3>1, <4>2, <4>3
    <3> QED
      BY <3>2, <3>3
  <2>5. g = [i \in 1..k |-> g[i]]
    BY <2>3
  <2>6. Outcomes(ops, k, g)
    BY <2>4, <2>5 DEF Outcomes
  <2> QED
    BY <2>6
<1>3. N \in G
  <2> HIDE DEF G
  <2>1. \A k \in 1..N : k - 1 \in G => k \in G
    BY <1>2
  <2>2. 0..N \subseteq G
    BY <1>1, <2>1, NaturalSteps
  <2> QED
    BY <2>2
<1> QED
  BY <1>3

\* The last of the outcomes, where the operations are of one type.
LEMMA OutcomeIs ==
  ASSUME NEW S, NEW ops \in Seq(S), NEW N, N = Len(ops), IsMerged(MergeOperations(ops))
  PROVE  /\ \A i \in 1..N : ops[i].op = ops[1].op
         /\ \E q : Outcomes(ops, N, q) /\ MergeOperations(ops) = q[N]
<1>1. N \in Nat /\ DOMAIN ops = 1..N
  OBVIOUS
<1>2. PICK f : Outcomes(ops, N, f)
  BY <1>1, OutcomesHas
<1> DEFINE outcome[i \in DOMAIN ops] ==
             IF i = 1 THEN Merged(ops[1].value)
             ELSE IF IsMerged(outcome[i - 1])
             THEN Merge(ops[i].op, outcome[i - 1].value, ops[i].value)
             ELSE outcome[i - 1]
<1>3. f = [i \in DOMAIN ops |->
             IF i = 1 THEN Merged(ops[1].value)
             ELSE IF IsMerged(f[i - 1]) THEN Merge(ops[i].op, f[i - 1].value, ops[i].value)
             ELSE f[i - 1]]
  BY <1>1, <1>2, Zenon DEF Outcomes, Continued
<1>4. outcome = [i \in DOMAIN ops |->
                   IF i = 1 THEN Merged(ops[1].value)
                   ELSE IF IsMerged(outcome[i - 1])
                   THEN Merge(ops[i].op, outcome[i - 1].value, ops[i].value)
                   ELSE outcome[i - 1]]
  BY <1>3, Zenon
<1>5. MergeOperations(ops) = IF \E i \in DOMAIN ops : ops[i].op # ops[1].op THEN Conflict
                             ELSE outcome[Len(ops)]
  BY Zenon DEF MergeOperations
<1> HIDE DEF outcome
<1>6. Outcomes(ops, N, outcome)
  BY <1>1, <1>4, Zenon DEF Outcomes, Continued
<1>7. ~\E i \in DOMAIN ops : ops[i].op # ops[1].op
  BY <1>5 DEF Conflict, IsMerged
<1> QED
  BY <1>1, <1>5, <1>6, <1>7

\* Operations that merge come to what they are merged to.
LEMMA OperationsFold ==
  ASSUME FloatsRound, NEW k, NEW ops \in Seq(ExactOperations), NEW N \in Nat \ {0}, N = Len(ops),
         \A i \in 1..N : ops[i].key = k, IsMerged(MergeOperations(ops))
  PROVE  /\ \A i \in 1..N : ops[i].op = ops[1].op
         /\ MergeOperations(ops).value \in Exact
         /\ FoldsTo(ops[1].op, k, ops, MergeOperations(ops).value)
<1>1. PICK q : Outcomes(ops, N, q) /\ MergeOperations(ops) = q[N]
  BY OutcomeIs
<1>2. \A i \in 1..N : ops[i].op = ops[1].op
  BY OutcomeIs
<1>3. PICK op : op = ops[1].op
  OBVIOUS
<1>4. /\ q[1] = Merged(ops[1].value)
      /\ \A i \in 2..N : q[i] = Continued(ops, q[i - 1], i)
  BY <1>1 DEF Outcomes
<1>5. ASSUME NEW j \in 1..N PROVE IsMerged(q[j])
  <2>1. SUFFICES ASSUME ~IsMerged(q[j]) PROVE FALSE
    OBVIOUS
  <2> DEFINE G == {i \in 0..N : i >= j => ~IsMerged(q[i])}
  <2>2. 0 \in G
    OBVIOUS
  <2>3. ASSUME NEW i \in 1..N, i - 1 \in G PROVE i \in G
    <3>1. CASE i = j
      BY <2>1, <3>1
    <3>2. CASE i < j
      BY <3>2
    <3>3. CASE i > j
      <4>1. ~IsMerged(q[i - 1]) /\ i \in 2..N
        BY <2>3, <3>3
      <4>2. q[i] = q[i - 1]
        BY <1>4, <4>1 DEF Continued
      <4> QED
        BY <4>1, <4>2
    <3> QED
      BY <3>1, <3>2, <3>3
  <2>4. N \in G
    <3> HIDE DEF G
    <3>1. \A i \in 1..N : i - 1 \in G => i \in G
      BY <2>3
    <3>2. 0..N \subseteq G
      BY <2>2, <3>1, NaturalSteps
    <3> QED
      BY <3>2
  <2> QED
    BY <1>1, <2>4
<1>6. ASSUME NEW i \in 1..N
      PROVE  /\ ops[i].key = k /\ ops[i].op = op /\ op \in OpType
             /\ ops[i].value \in Exact /\ ops[i].value \in ExactValues /\ PartOf(ops[i], k) = ops[i].value
  <2>1. ops[i] \in ExactOperations
    OBVIOUS
  <2> QED
    BY <1>2, <1>3, <2>1, ExactAreExact DEF ExactOperations, AlgebraicOperation, PartOf
<1> DEFINE H == {i \in 0..N : i >= 1 => q[i].value \in Exact}
<1>7. 0 \in H
  OBVIOUS
<1>8. ASSUME NEW i \in 2..N, q[i - 1].value \in Exact
      PROVE  q[i].value \in Exact /\ q[i].value = JoinOf(op, q[i - 1].value, ops[i].value)
  <2>1. PICK r, v, w : r = q[i] /\ v = q[i - 1].value /\ w = ops[i].value
    OBVIOUS
  <2>2. IsMerged(q[i - 1]) /\ IsMerged(r)
    BY <1>5, <2>1
  <2>3. r = Merge(op, v, w)
    BY <1>4, <1>6, <2>1, <2>2 DEF Continued
  <2>4. v \in Exact /\ w \in Exact /\ op \in OpType
    BY <1>6, <1>8, <2>1
  <2>5. r.value \in Exact /\ r.value = JoinOf(op, v, w)
    BY <2>2, <2>3, <2>4, MergeJoins
  <2> QED
    BY <2>1, <2>5
<1>9. q[1].value = ops[1].value
  BY <1>4 DEF Merged
<1>10. ASSUME NEW i \in 1..N, i - 1 \in H PROVE i \in H
  <2>1. CASE i = 1
    BY <1>6, <1>9, <2>1
  <2>2. CASE i # 1
    <3>1. i \in 2..N /\ q[i - 1].value \in Exact
      BY <1>10, <2>2
    <3> QED
      BY <1>8, <3>1
  <2> QED
    BY <2>1, <2>2
<1>11. \A i \in 1..N : q[i].value \in Exact
  <2>1. 0..N \subseteq H
    <3> HIDE DEF H
    <3>1. \A i \in 1..N : i - 1 \in H => i \in H
      BY <1>10
    <3> QED
      BY <1>7, <3>1, NaturalSteps
  <2> QED
    BY <2>1
<1>12. PICK p : p = [i \in 0..N |-> IF i = 0 THEN Null ELSE q[i].value]
  OBVIOUS
<1>13. p \in [0..N -> ExactValues] /\ p[0] = Null
  <2>1. Null \in ExactValues /\ \A i \in 1..N : q[i].value \in ExactValues
    BY <1>11, ExactAreExact DEF ExactValues
  <2>2. ASSUME NEW i \in 0..N PROVE p[i] \in ExactValues
    BY <1>12, <2>1
  <2>3. p = [i \in 0..N |-> p[i]]
    BY <1>12
  <2> QED
    BY <1>12, <2>2, <2>3
<1>14. ASSUME NEW i \in 1..N PROVE p[i] = JoinOf(op, p[i - 1], PartOf(ops[i], k))
  <2>1. PartOf(ops[i], k) = ops[i].value /\ ops[i].value \in ExactValues
    BY <1>6
  <2>2. CASE i = 1
    <3>1. p[i] = ops[i].value /\ p[i - 1] = Null
      BY <1>9, <1>12, <2>2
    <3> QED
      BY <2>1, <3>1, ValuesJoin
  <2>3. CASE i # 1
    <3>1. i \in 2..N /\ p[i] = q[i].value /\ p[i - 1] = q[i - 1].value /\ q[i - 1].value \in Exact
      BY <1>11, <1>12, <2>3
    <3> QED
      BY <1>8, <2>1, <3>1
  <2> QED
    BY <2>2, <2>3
<1>15. Folds(op, k, ops, N, p) /\ p[N] = q[N].value
  <2>1. p[N] = q[N].value
    BY <1>12
  <2>2. Folds(op, k, ops, N, p)
    BY <1>13, <1>14 DEF Folds
  <2> QED
    BY <2>1, <2>2
<1>16. MergeOperations(ops).value \in Exact /\ FoldsTo(op, k, ops, MergeOperations(ops).value)
  BY <1>1, <1>11, <1>15 DEF FoldsTo
<1> QED
  BY <1>2, <1>3, <1>16

-----------------------------------------------------------------------------
(* What operations leave of a state                                         *)

ExactStates == {s \in States : \A k \in DOMAIN s : s[k].value \in Exact}
Start(s, k) == IF k \in DOMAIN s THEN s[k].value ELSE Null

\* Operations that were applied to s, one after the other, leave t: every key
\* at what it was, joined with what they come to for it.
LeavesKey(s, v, k, ops) ==
  /\ k \in DOMAIN s => s[k].op = v.op
  /\ \A o \in Elements(ops) : o.key = k => o.op = v.op
  /\ \A y : FoldsTo(v.op, k, ops, y) => v.value = JoinOf(v.op, Start(s, k), y)
Leaves(s, t, ops) ==
  /\ DOMAIN t = DOMAIN s \cup {o.key : o \in Elements(ops)}
  /\ \A k \in DOMAIN t : LeavesKey(s, t[k], k, ops)

\* What a key is before any operation.
LEMMA StartsExact ==
  ASSUME NEW s \in ExactStates, NEW k
  PROVE  Start(s, k) \in Exact /\ Start(s, k) \in ExactValues
<1>1. Null \in Exact
  BY DEF Exact, AlgebraicValue, Null
<1>2. Start(s, k) \in Exact
  BY <1>1 DEF Start, ExactStates
<1> QED
  BY <1>2, ExactAreExact

\* One operation.
LEMMA OneLeaves ==
  ASSUME FloatsRound, NEW s \in ExactStates, NEW o \in ExactOperations, ApplyOperation(s, o).ok
  PROVE  ApplyOperation(s, o).state \in ExactStates /\ Leaves(s, ApplyOperation(s, o).state, <<o>>)
<1>1. PICK t : t = ApplyOperation(s, o).state
  OBVIOUS
<1>2. PICK k, op, w : k = o.key /\ op = o.op /\ w = o.value
  OBVIOUS
<1>3. /\ s \in States /\ o \in AlgebraicOperation /\ op \in OpType /\ w \in Exact /\ w \in ExactValues
      /\ \A j \in DOMAIN s : s[j].value \in Exact
  BY <1>2, ExactAreExact DEF ExactStates, ExactOperations, AlgebraicOperation
<1>4. PICK r : r = IF k \in DOMAIN s
                   THEN IF s[k].op = op THEN Merge(op, s[k].value, w) ELSE Conflict
                   ELSE Merged(w)
  OBVIOUS
<1>5. IsMerged(r) /\ t = [j \in DOMAIN s \cup {k} |-> IF j = k THEN [op |-> op, value |-> r.value] ELSE s[j]]
  BY <1>1, <1>2, <1>4 DEF ApplyOperation
<1>6. /\ r.value \in Exact /\ r.value = JoinOf(op, Start(s, k), w)
      /\ k \in DOMAIN s => s[k].op = op
  <2>1. CASE k \in DOMAIN s
    <3>1. s[k].op = op
      BY <1>4, <1>5, <2>1 DEF Conflict, IsMerged
    <3>2. PICK v : v = s[k].value
      OBVIOUS
    <3>3. r = Merge(op, v, w) /\ v \in Exact /\ Start(s, k) = v
      BY <1>3, <1>4, <2>1, <3>1, <3>2 DEF Start
    <3>4. r.value \in Exact /\ r.value = JoinOf(op, v, w)
      BY <1>3, <1>5, <3>3, MergeJoins
    <3> QED
      BY <3>1, <3>3, <3>4
  <2>2. CASE k \notin DOMAIN s
    <3>1. r.value = w
      BY <1>4, <2>2 DEF Merged
    <3>2. Start(s, k) = Null
      BY <2>2 DEF Start
    <3> QED
      BY <1>3, <2>2, <3>1, <3>2, ValuesJoin
  <2> QED
    BY <2>1, <2>2
<1>7. /\ DOMAIN t = DOMAIN s \cup {k} /\ t[k].op = op /\ t[k].value = r.value
      /\ \A j \in DOMAIN s : j # k => t[j] = s[j]
  BY <1>5
<1>8. t \in ExactStates
  <2>1. t \in States
    BY <1>1, <1>3, OperationTypes
  <2>2. ASSUME NEW j \in DOMAIN t PROVE t[j].value \in Exact
    BY <1>3, <1>6, <1>7
  <2> QED
    BY <2>1, <2>2 DEF ExactStates
<1>9. PICK one : one = <<o>>
  OBVIOUS
<1>10. Elements(one) = {o} /\ one \in Seq(ExactOperations) /\ Len(one) = 1 /\ one[1] = o
  BY <1>9, ElementsOfOne
<1>11. ASSUME NEW j \in DOMAIN t PROVE LeavesKey(s, t[j], j, one)
  <2>1. CASE j = k
    <3>1. FoldsTo(op, k, one, w)
      <4>1. 1 \in 1..Len(one) /\ one[1].key = k /\ \A i \in 1..Len(one) : i # 1 => one[i].key # k
        BY <1>2, <1>10
      <4>2. FoldsTo(op, k, one, one[1].value)
        BY <1>10, <4>1, FoldsOne
      <4> QED
        BY <1>2, <1>10, <4>2
    <3>2. ASSUME NEW y, FoldsTo(op, k, one, y) PROVE y = w
      <4>1. Len(one) \in Nat
        BY <1>10
      <4> QED
        BY <3>1, <3>2, <4>1, FoldsOnce
    <3>3. t[j].op = op /\ t[j].value = JoinOf(op, Start(s, j), w)
      BY <1>6, <1>7, <2>1
    <3>4. \A y : FoldsTo(t[j].op, j, one, y) => t[j].value = JoinOf(t[j].op, Start(s, j), y)
      BY <2>1, <3>2, <3>3
    <3>5. j \in DOMAIN s => s[j].op = t[j].op
      BY <1>6, <2>1, <3>3
    <3>6. \A x \in Elements(one) : x.key = j => x.op = t[j].op
      BY <1>2, <1>10, <3>3
    <3> QED
      BY <3>4, <3>5, <3>6 DEF LeavesKey
  <2>2. CASE j # k
    <3>1. j \in DOMAIN s /\ t[j] = s[j]
      BY <1>7, <2>2
    <3>2. PICK v : v = s[j].value
      OBVIOUS
    <3>3. Start(s, j) = v /\ t[j].value = v
      BY <3>1, <3>2 DEF Start
    <3>4. v \in ExactValues
      BY <3>3, StartsExact
    <3>5. \A x : FoldsTo(x, j, one, Null)
      <4>1. Len(one) \in Nat /\ \A i \in 1..Len(one) : one[i].key # j
        BY <1>2, <1>10, <2>2
      <4> QED
        BY <4>1, FoldsNone
    <3>6. ASSUME NEW y, FoldsTo(t[j].op, j, one, y) PROVE t[j].value = JoinOf(t[j].op, Start(s, j), y)
      <4>1. Len(one) \in Nat
        BY <1>10
      <4>2. y = Null
        BY <3>5, <3>6, <4>1, FoldsOnce
      <4> QED
        BY <3>3, <3>4, <4>2, ValuesJoin
    <3>7. \A x \in Elements(one) : x.key = j => x.op = t[j].op
      BY <1>2, <1>10, <2>2
    <3> QED
      BY <3>1, <3>6, <3>7 DEF LeavesKey
  <2> QED
    BY <2>1, <2>2
<1>12. DOMAIN t = DOMAIN s \cup {x.key : x \in Elements(one)}
  BY <1>2, <1>7, <1>10
<1>13. Leaves(s, t, one)
  BY <1>11, <1>12 DEF Leaves
<1> QED
  BY <1>1, <1>8, <1>9, <1>13

\* None.
LEMMA NoneLeaves ==
  ASSUME NEW s \in ExactStates, NEW none, none = <<>>
  PROVE  Leaves(s, s, none)
<1>1. Len(none) = 0 /\ Elements(none) = {}
  BY DEF Elements
<1>2. \A op, k : FoldsTo(op, k, none, Null)
  <2>1. Len(none) \in Nat /\ \A k : \A i \in 1..Len(none) : none[i].key # k
    BY <1>1
  <2> QED
    BY <2>1, FoldsNone
<1>3. ASSUME NEW k \in DOMAIN s PROVE LeavesKey(s, s[k], k, none)
  <2>1. PICK v : v = s[k].value
    OBVIOUS
  <2>2. Start(s, k) = v /\ v \in ExactValues
    <3>1. Start(s, k) = v
      BY <2>1 DEF Start
    <3> QED
      BY <3>1, StartsExact
  <2>3. ASSUME NEW y, FoldsTo(s[k].op, k, none, y) PROVE s[k].value = JoinOf(s[k].op, Start(s, k), y)
    <3>1. Len(none) \in Nat
      BY <1>1
    <3>2. y = Null
      BY <1>2, <2>3, <3>1, FoldsOnce
    <3> QED
      BY <2>1, <2>2, <3>2, ValuesJoin
  <2> QED
    BY <1>1, <2>3 DEF LeavesKey
<1> QED
  BY <1>1, <1>3 DEF Leaves

\* Some and then others.
LEMMA BothLeave ==
  ASSUME NEW s \in ExactStates, NEW t \in ExactStates, NEW z \in ExactStates,
         NEW a \in Seq(ExactOperations), NEW b \in Seq(ExactOperations), Leaves(s, t, a), Leaves(t, z, b)
  PROVE  Leaves(s, z, a \o b)
<1>1. PICK c : c = a \o b
  OBVIOUS
<1>2. Elements(c) = Elements(a) \cup Elements(b) /\ Len(c) \in Nat /\ Len(a) \in Nat /\ Len(b) \in Nat
  <2>1. Elements(c) = Elements(a) \cup Elements(b)
    BY <1>1, ElementsJoined
  <2> QED
    BY <1>1, <2>1
<1>3. /\ DOMAIN t = DOMAIN s \cup {o.key : o \in Elements(a)}
      /\ DOMAIN z = DOMAIN t \cup {o.key : o \in Elements(b)}
  BY DEF Leaves
<1>4. DOMAIN z = DOMAIN s \cup {o.key : o \in Elements(c)}
  BY <1>2, <1>3
<1>5. ASSUME NEW k \in DOMAIN z PROVE LeavesKey(s, z[k], k, c)
  <2>1. PICK op : op = z[k].op
    OBVIOUS
  <2>2. /\ LeavesKey(t, z[k], k, b)
        /\ k \in DOMAIN t => LeavesKey(s, t[k], k, a)
    BY DEF Leaves
  <2>3. k \in DOMAIN t => t[k].op = op
    BY <2>1, <2>2 DEF LeavesKey
  <2>4. PICK x \in ExactValues : FoldsTo(op, k, a, x)
    BY FoldsHas
  <2>5. PICK y \in ExactValues : FoldsTo(op, k, b, y)
    BY FoldsHas
  <2>6. z[k].value = JoinOf(op, Start(t, k), y)
    BY <2>1, <2>2, <2>5 DEF LeavesKey
  <2>7. Start(t, k) = JoinOf(op, Start(s, k), x)
    <3>1. CASE k \in DOMAIN t
      <4>1. t[k].value = JoinOf(op, Start(s, k), x)
        BY <2>2, <2>3, <2>4, <3>1 DEF LeavesKey
      <4> QED
        BY <3>1, <4>1 DEF Start
    <3>2. CASE k \notin DOMAIN t
      <4>1. k \notin DOMAIN s /\ \A i \in 1..Len(a) : a[i].key # k
        BY <1>3, <3>2 DEF Elements
      <4>2. FoldsTo(op, k, a, Null)
        BY <1>2, <4>1, FoldsNone
      <4>3. x = Null
        BY <1>2, <2>4, <4>2, FoldsOnce
      <4>4. Start(s, k) = Null /\ Start(t, k) = Null
        BY <3>2, <4>1 DEF Start
      <4> QED
        BY <4>3, <4>4 DEF JoinOf
    <3> QED
      BY <3>1, <3>2
  <2>8. z[k].value = JoinOf(op, Start(s, k), JoinOf(op, x, y))
    <3>1. PICK v \in ExactValues : v = Start(s, k)
      BY StartsExact
    <3> QED
      BY <2>4, <2>5, <2>6, <2>7, <3>1, ValuesGroup
  <2>9. FoldsTo(op, k, c, JoinOf(op, x, y))
    BY <1>1, <2>4, <2>5, FoldsBoth
  <2>10. ASSUME NEW w, FoldsTo(op, k, c, w) PROVE z[k].value = JoinOf(op, Start(s, k), w)
    <3>1. w = JoinOf(op, x, y)
      BY <1>2, <2>9, <2>10, FoldsOnce
    <3> QED
      BY <2>8, <3>1
  <2>11. k \in DOMAIN s => s[k].op = op
    <3>1. k \in DOMAIN s => k \in DOMAIN t
      BY <1>3
    <3> QED
      BY <2>2, <2>3, <3>1 DEF LeavesKey
  <2>12. ASSUME NEW o \in Elements(c), o.key = k PROVE o.op = op
    <3>1. CASE o \in Elements(a)
      <4>1. k \in DOMAIN t
        BY <1>3, <2>12, <3>1
      <4> QED
        BY <2>2, <2>3, <2>12, <3>1, <4>1 DEF LeavesKey
    <3>2. CASE o \in Elements(b)
      BY <2>1, <2>2, <2>12, <3>2 DEF LeavesKey
    <3> QED
      BY <1>2, <3>1, <3>2
  <2> QED
    BY <2>1, <2>10, <2>11, <2>12 DEF LeavesKey
<1>6. Leaves(s, z, c)
  BY <1>4, <1>5 DEF Leaves
<1> QED
  BY <1>1, <1>6

FirstOf(ops, i) == [j \in 1..i |-> ops[j]]

\* The first operations, one more at a time.
LEMMA FirstOfGrows ==
  ASSUME NEW S, NEW ops \in Seq(S), NEW i \in 1..Len(ops)
  PROVE  /\ FirstOf(ops, i - 1) \in Seq(S) /\ FirstOf(ops, 0) = <<>>
         /\ FirstOf(ops, i) = FirstOf(ops, i - 1) \o <<ops[i]>>
         /\ FirstOf(ops, Len(ops)) = ops
<1>1. PICK a : a = FirstOf(ops, i - 1)
  OBVIOUS
<1>2. PICK one : one = <<ops[i]>>
  OBVIOUS
<1>3. a \in Seq(S) /\ Len(a) = i - 1 /\ \A j \in 1..(i - 1) : a[j] = ops[j]
  BY <1>1 DEF FirstOf
<1>4. one \in Seq(S) /\ Len(one) = 1 /\ one[1] = ops[i]
  BY <1>2
<1>5. PICK c : c = a \o one
  OBVIOUS
<1>6. /\ c \in Seq(S) /\ Len(c) = i /\ \A j \in 1..(i - 1) : c[j] = a[j]
      /\ c[i] = one[1]
  <2>1. PICK n \in Nat, m \in Nat : n = Len(a) /\ m = Len(one)
    BY <1>3, <1>4
  <2>2. /\ Len(c) = n + m /\ \A j \in 1..n : c[j] = a[j]
        /\ \A j \in 1..m : c[n + j] = one[j]
    <3>1. a \in Seq(S) /\ one \in Seq(S)
      BY <1>3, <1>4
    <3> HIDE <1>3, <1>4
    <3> QED
      BY <1>5, <2>1, <3>1, ConcatHas
  <2>3. n = i - 1 /\ m = 1
    BY <1>3, <1>4, <2>1
  <2>4. n + m = i /\ 1 \in 1..m /\ n + 1 = i
    BY <2>3
  <2>5. c \in Seq(S)
    BY <1>3, <1>4, <1>5
  <2>6. c[n + 1] = one[1]
    BY <2>2, <2>4
  <2> QED
    BY <2>2, <2>3, <2>4, <2>5, <2>6
<1>7. DOMAIN c = 1..i /\ c = [j \in 1..i |-> c[j]]
  BY <1>6
<1>8. ASSUME NEW j \in 1..i PROVE c[j] = ops[j]
  <2>1. CASE j = i
    BY <1>4, <1>6, <2>1
  <2>2. CASE j # i
    BY <1>3, <1>6, <2>2
  <2> QED
    BY <2>1, <2>2
<1>9. c = FirstOf(ops, i)
  BY <1>7, <1>8 DEF FirstOf
<1>10. FirstOf(ops, 0) = <<>>
  BY DEF FirstOf
<1>11. FirstOf(ops, Len(ops)) = ops
  BY DEF FirstOf
<1> QED
  BY <1>1, <1>2, <1>3, <1>5, <1>9, <1>10, <1>11

\* An update that applies.
LEMMA UpdateLeaves ==
  ASSUME FloatsRound, NEW s \in ExactStates, NEW u, u.operations \in Seq(ExactOperations),
         ApplyUpdateToState(s, u).ok
  PROVE  /\ ApplyUpdateToState(s, u).state \in ExactStates
         /\ Leaves(s, ApplyUpdateToState(s, u).state, u.operations)
<1>1. PICK ops \in Seq(ExactOperations) : ops = u.operations
  OBVIOUS
<1>2. PICK N \in Nat : N = Len(ops)
  OBVIOUS
<1>3. u.operations \in Seq(AlgebraicOperation)
  <2>1. \A i \in 1..N : ops[i] \in AlgebraicOperation
    BY <1>2 DEF ExactOperations
  <2>2. ops \in Seq(AlgebraicOperation)
    BY <1>2, <2>1
  <2> QED
    BY <1>1, <2>2
<1>4. PICK a : a = StatesAfter(s, ops)
  OBVIOUS
<1>5. s \in States
  BY DEF ExactStates
<1>6. a[0] = s /\ \A i \in 1..N : a[i] = ApplyOperation(a[i - 1], ops[i]).state
  BY <1>1, <1>2, <1>3, <1>4, <1>5, StatesFollow
<1>7. ApplyUpdateToState(s, u).done = N
  BY <1>1, <1>2, <1>3, ApplyCounts
<1>8. \A i \in 1..N : ApplyOperation(a[i - 1], ops[i]).ok
  <2>1. \A i \in 1..ApplyUpdateToState(s, u).done :
          ApplyOperation(StatesAfter(s, u.operations)[i - 1], u.operations[i]).ok
    BY <1>3, DoneMerge
  <2> QED
    BY <1>1, <1>4, <1>7, <2>1
<1>9. ApplyUpdateToState(s, u).state = a[N]
  <2> DEFINE done == Cardinality({i \in DOMAIN u.operations :
                       \A j \in 1..i : ApplyOperation(StatesAfter(s, u.operations)[j - 1], u.operations[j]).ok})
  <2>1. /\ ApplyUpdateToState(s, u).done = done
        /\ ApplyUpdateToState(s, u).state = StatesAfter(s, u.operations)[done]
    BY DEF ApplyUpdateToState
  <2> HIDE DEF done
  <2> QED
    BY <1>1, <1>4, <1>7, <2>1
<1> DEFINE G == {i \in 0..N : a[i] \in ExactStates /\ Leaves(s, a[i], FirstOf(ops, i))}
<1>10. 0 \in G
  <2>1. PICK none : none = FirstOf(ops, 0)
    OBVIOUS
  <2>2. none = <<>>
    BY <2>1 DEF FirstOf
  <2>3. Leaves(s, s, none)
    BY <2>2, NoneLeaves
  <2> QED
    BY <1>6, <2>1, <2>3
<1>11. ASSUME NEW i \in 1..N, i - 1 \in G PROVE i \in G
  <2>1. PICK b, c, one : b = FirstOf(ops, i - 1) /\ c = FirstOf(ops, i) /\ one = <<ops[i]>>
    OBVIOUS
  <2>2. PICK x, y : x = a[i - 1] /\ y = a[i]
    OBVIOUS
  <2>3. x \in ExactStates /\ Leaves(s, x, b)
    BY <1>11, <2>1, <2>2
  <2>4. ops[i] \in ExactOperations /\ ApplyOperation(x, ops[i]).ok /\ y = ApplyOperation(x, ops[i]).state
    BY <1>2, <1>6, <1>8, <2>2
  <2>5. y \in ExactStates /\ Leaves(x, y, one)
    BY <2>1, <2>3, <2>4, OneLeaves
  <2>6. b \in Seq(ExactOperations) /\ c = b \o one
    BY <1>2, <2>1, FirstOfGrows
  <2>7. one \in Seq(ExactOperations)
    BY <2>1, <2>4
  <2>8. Leaves(s, y, c)
    BY <2>3, <2>5, <2>6, <2>7, BothLeave
  <2> QED
    BY <2>1, <2>2, <2>5, <2>8
<1>12. N \in G
  <2> HIDE DEF G
  <2>1. \A i \in 1..N : i - 1 \in G => i \in G
    BY <1>11
  <2>2. 0..N \subseteq G
    BY <1>10, <2>1, NaturalSteps
  <2> QED
    BY <2>2
<1>13. FirstOf(ops, N) = ops
  BY <1>2 DEF FirstOf
<1> QED
  BY <1>1, <1>9, <1>12, <1>13

\* What is left is the same wherever keys come to the same.
LEMMA LeavesSame ==
  ASSUME NEW s \in ExactStates, NEW t \in ExactStates, NEW z \in ExactStates, NEW a, NEW b,
         Leaves(s, t, a), Leaves(s, z, b), {o.key : o \in Elements(a)} = {o.key : o \in Elements(b)},
         \A k \in DOMAIN t : /\ t[k].op = z[k].op
                             /\ \E y : FoldsTo(t[k].op, k, a, y) /\ FoldsTo(t[k].op, k, b, y)
  PROVE  t = z
<1>1. DOMAIN t = DOMAIN z
  BY DEF Leaves
<1>2. ASSUME NEW k \in DOMAIN t PROVE t[k] = z[k]
  <2>1. PICK op : op = t[k].op /\ op = z[k].op
    OBVIOUS
  <2>2. PICK y : FoldsTo(op, k, a, y) /\ FoldsTo(op, k, b, y)
    BY <2>1
  <2>3. LeavesKey(s, t[k], k, a) /\ LeavesKey(s, z[k], k, b)
    BY <1>1 DEF Leaves
  <2>4. t[k].value = JoinOf(op, Start(s, k), y) /\ z[k].value = JoinOf(op, Start(s, k), y)
    BY <2>1, <2>2, <2>3 DEF LeavesKey
  <2>5. t[k] \in [op : OpType, value : AlgebraicValue] /\ z[k] \in [op : OpType, value : AlgebraicValue]
    BY <1>1 DEF ExactStates, States
  <2> QED
    BY <2>1, <2>4, <2>5
<1>3. t = [k \in DOMAIN t |-> t[k]] /\ z = [k \in DOMAIN z |-> z[k]]
  BY DEF ExactStates, States
<1> QED
  BY <1>1, <1>2, <1>3

-----------------------------------------------------------------------------
(* What merge_updates makes of operations                                   *)

\* One operation for all those of its key.
Sums(ops, k, o) ==
  /\ o \in ExactOperations /\ o.key = k /\ \A x \in Elements(ops) : x.key = k => x.op = o.op
  /\ FoldsTo(o.op, k, ops, o.value)
Summed(ops, k) == Operation(k, ForKey(ops, k)[1].op, MergeOperations(ForKey(ops, k)).value)

\* What a list holds is finite.
LEMMA ImageFinite ==
  ASSUME NEW N \in Nat, NEW f
  PROVE  IsFiniteSet({f[i] : i \in 1..N})
<1> DEFINE G == {n \in 0..N : IsFiniteSet({f[i] : i \in 1..n})}
<1>1. 0 \in G
  <2>1. {f[i] : i \in 1..0} = {}
    OBVIOUS
  <2> QED
    BY <2>1, FS_EmptySet
<1>2. ASSUME NEW n \in 1..N, n - 1 \in G PROVE n \in G
  <2>1. PICK T : T = {f[i] : i \in 1..(n - 1)}
    OBVIOUS
  <2>2. {f[i] : i \in 1..n} = T \cup {f[n]}
    <3>1. 1..n = 1..(n - 1) \cup {n}
      OBVIOUS
    <3> QED
      BY <2>1, <3>1
  <2>3. IsFiniteSet(T)
    BY <1>2, <2>1
  <2>4. IsFiniteSet(T \cup {f[n]})
    BY <2>3, FS_AddElement
  <2> QED
    BY <2>2, <2>4
<1>3. N \in G
  <2> HIDE DEF G
  <2>1. \A n \in 1..N : n - 1 \in G => n \in G
    BY <1>2
  <2>2. 0..N \subseteq G
    BY <1>1, <2>1, NaturalSteps
  <2> QED
    BY <2>2
<1> QED
  BY <1>3

\* The keys of operations.
LEMMA KeysAre ==
  ASSUME NEW S, NEW ops \in Seq(S)
  PROVE  KeysOf(ops) = {o.key : o \in Elements(ops)}
<1>1. PICK N \in Nat : N = Len(ops) /\ DOMAIN ops = 1..N
  OBVIOUS
<1>2. KeysOf(ops) = {ops[i].key : i \in 1..N}
  BY <1>1 DEF KeysOf
<1>3. {ops[i].key : i \in 1..N} = {o.key : o \in Elements(ops)}
  BY <1>1 DEF Elements
<1> QED
  BY <1>2, <1>3

\* The merged operation of a key stands for all of its operations.
LEMMA SumsUp ==
  ASSUME FloatsRound, NEW ops \in Seq(ExactOperations), NEW k \in KeysOf(ops),
         IsMerged(MergeOperations(ForKey(ops, k)))
  PROVE  Sums(ops, k, Summed(ops, k))
<1>1. PICK q, N : q = ForKey(ops, k) /\ N = Len(q)
  OBVIOUS
<1>2. q \in Seq(ExactOperations) /\ Elements(q) = {o \in Elements(ops) : o.key = k}
  BY <1>1, ForKeyHas
<1>3. N \in Nat \ {0}
  <2>1. \E o \in Elements(ops) : o.key = k
    BY KeysAre
  <2>2. PICK o : o \in Elements(q)
    BY <1>2, <2>1
  <2> QED
    BY <1>1, <1>2, <2>2 DEF Elements
<1>4. ASSUME NEW i \in 1..N PROVE q[i].key = k
  <2>1. q[i] \in Elements(q)
    BY <1>1 DEF Elements
  <2> QED
    BY <1>2, <2>1
<1>5. PICK r : r = MergeOperations(q)
  OBVIOUS
<1>6. IsMerged(r)
  BY <1>1, <1>5
<1>7. PICK op, v : op = q[1].op /\ v = r.value
  OBVIOUS
<1>8. (\A i \in 1..N : q[i].op = op) /\ v \in Exact /\ FoldsTo(op, k, q, v)
  <2>1. N = Len(q) /\ IsMerged(MergeOperations(q))
    BY <1>1, <1>5, <1>6
  <2>2. /\ \A i \in 1..N : q[i].op = q[1].op
        /\ MergeOperations(q).value \in Exact
        /\ FoldsTo(q[1].op, k, q, MergeOperations(q).value)
    BY <1>2, <1>3, <1>4, <2>1, OperationsFold
  <2> QED
    BY <1>5, <1>7, <2>2
<1>9. FoldsTo(op, k, ops, v)
  <2>1. PICK y : FoldsTo(op, k, ops, y)
    BY FoldsHas
  <2>2. FoldsTo(op, k, q, y)
    BY <1>1, <2>1, ForKeyFolds
  <2>3. y = v
    BY <1>1, <1>3, <1>8, <2>2, FoldsOnce
  <2> QED
    BY <2>1, <2>3
<1>10. ASSUME NEW x \in Elements(ops), x.key = k PROVE x.op = op
  <2>1. x \in Elements(q)
    BY <1>2, <1>10
  <2> QED
    BY <1>1, <1>8, <2>1 DEF Elements
<1>11. q[1] \in ExactOperations /\ q[1].key = k
  BY <1>1, <1>2, <1>3, <1>4
<1>12. PICK o : o = Summed(ops, k)
  OBVIOUS
<1>13. o = [key |-> k, op |-> op, value |-> v]
  BY <1>1, <1>5, <1>7, <1>12 DEF Summed, Operation
<1>14. o \in ExactOperations
  BY <1>7, <1>8, <1>11, <1>13 DEF ExactOperations, AlgebraicOperation, Exact
<1>15. o.key = k /\ o.op = op /\ o.value = v
  BY <1>13
<1>16. Sums(ops, k, o)
  BY <1>9, <1>10, <1>14, <1>15 DEF Sums
<1> QED
  BY <1>12, <1>16

\* What is merged has one operation of each key.
SumsEach(ops, m) ==
  /\ m \in Seq(ExactOperations)
  /\ \A i \in 1..Len(m) : m[i].key \in KeysOf(ops)
  /\ \A k \in KeysOf(ops) : \E j \in 1..Len(m) :
       Sums(ops, k, m[j]) /\ \A i \in 1..Len(m) : i # j => m[i].key # k

\* merge_updates makes one operation of those of each key.
LEMMA MergedSums ==
  ASSUME FloatsRound, NEW ops \in Seq(ExactOperations), NEW clock, NEW origin,
         MergeByKey(ops, clock, origin).ok
  PROVE  /\ MergeByKey(ops, clock, origin).update.clock = clock
         /\ SumsEach(ops, MergeByKey(ops, clock, origin).update.operations)
<1>1. PICK K : K = KeysOf(ops)
  OBVIOUS
<1>2. PICK f : f = [k \in K |-> Summed(ops, k)]
  OBVIOUS
<1>3. PICK M : M = {f[k] : k \in K}
  OBVIOUS
<1>4. {Operation(k, ForKey(ops, k)[1].op, MergeOperations(ForKey(ops, k)).value) : k \in KeysOf(ops)} = M
  BY <1>1, <1>2, <1>3 DEF Summed
<1> DEFINE failed == {k \in KeysOf(ops) : ~IsMerged(MergeOperations(ForKey(ops, k)))}
<1> DEFINE merged == {Operation(k, ForKey(ops, k)[1].op, MergeOperations(ForKey(ops, k)).value)
                        : k \in KeysOf(ops)}
<1>5. failed # {} => MergeByKey(ops, clock, origin)
                       = Error(MergeOperations(ForKey(ops, CHOOSE k \in failed : TRUE)).outcome)
  BY Zenon DEF MergeByKey
<1>5a. failed = {} => MergeByKey(ops, clock, origin)
                       = Ok([operations |-> SetToSeq(merged), clock |-> clock, origin |-> origin])
  BY Zenon DEF MergeByKey
<1>6. failed = {} /\ MergeByKey(ops, clock, origin)
                       = Ok([operations |-> SetToSeq(M), clock |-> clock, origin |-> origin])
  <2>1. merged = M
    BY <1>4
  <2> HIDE DEF failed, merged
  <2> QED
    BY <1>5, <1>5a, <2>1 DEF Error, Ok
<1> HIDE DEF merged
<1>7. PICK m : m = SetToSeq(M)
  OBVIOUS
<1>8. /\ MergeByKey(ops, clock, origin).update.clock = clock
      /\ MergeByKey(ops, clock, origin).update.operations = m
  BY <1>6, <1>7 DEF Ok
<1>9. ASSUME NEW k \in K PROVE Sums(ops, k, f[k]) /\ f[k].key = k /\ f[k] \in ExactOperations
  <2>1. IsMerged(MergeOperations(ForKey(ops, k)))
    BY <1>1, <1>6
  <2>2. Sums(ops, k, f[k])
    BY <1>1, <1>2, <2>1, SumsUp
  <2> QED
    BY <2>2 DEF Sums
<1>10. IsFiniteSet(M)
  <2>1. PICK N \in Nat : N = Len(ops) /\ DOMAIN ops = 1..N
    OBVIOUS
  <2>2. PICK g : g = [i \in 1..N |-> f[ops[i].key]]
    OBVIOUS
  <2>3. K = {ops[i].key : i \in 1..N}
    BY <1>1, <2>1 DEF KeysOf
  <2>4. {g[i] : i \in 1..N} = M
    BY <1>3, <2>2, <2>3
  <2> QED
    BY <2>4, ImageFinite
<1>11. PICK C : C = Cardinality(M)
  OBVIOUS
<1>12. /\ C \in Nat /\ m \in [1..C -> M]
       /\ \A x \in M : \E i \in 1..C : m[i] = x
       /\ \A i, j \in 1..C : i # j => m[i] # m[j]
  BY <1>7, <1>10, <1>11, ListedNames
<1>13. M \subseteq ExactOperations
  BY <1>3, <1>9
<1>14. m \in Seq(ExactOperations) /\ Len(m) = C
  BY <1>12, <1>13
<1>15. ASSUME NEW i \in 1..C PROVE m[i].key \in K /\ m[i] = f[m[i].key]
  <2>1. PICK k \in K : m[i] = f[k]
    BY <1>3, <1>12
  <2> QED
    BY <1>9, <2>1
<1>16. ASSUME NEW k \in K
       PROVE  \E j \in 1..C : Sums(ops, k, m[j]) /\ \A i \in 1..C : i # j => m[i].key # k
  <2>1. PICK j \in 1..C : m[j] = f[k]
    BY <1>3, <1>12
  <2>2. Sums(ops, k, m[j])
    BY <1>9, <2>1
  <2>3. ASSUME NEW i \in 1..C, i # j PROVE m[i].key # k
    BY <1>12, <1>15, <2>1, <2>3
  <2> QED
    BY <2>2, <2>3
<1>17. SumsEach(ops, m)
  BY <1>1, <1>14, <1>15, <1>16 DEF SumsEach
<1> QED
  BY <1>8, <1>17

\* It leaves what the operations leave that it was merged from.
LEMMA SumsLeave ==
  ASSUME NEW s \in ExactStates, NEW t \in ExactStates, NEW z \in ExactStates,
         NEW ops \in Seq(ExactOperations), NEW m, SumsEach(ops, m), Leaves(s, t, ops), Leaves(s, z, m)
  PROVE  t = z
<1>1. m \in Seq(ExactOperations) /\ Len(m) \in Nat /\ Len(ops) \in Nat
  BY DEF SumsEach
<1>2. {o.key : o \in Elements(ops)} = KeysOf(ops)
  BY KeysAre
<1>3. {o.key : o \in Elements(m)} = KeysOf(ops)
  <2>1. ASSUME NEW k \in KeysOf(ops) PROVE k \in {o.key : o \in Elements(m)}
    <3>1. PICK j \in 1..Len(m) : m[j].key = k
      BY DEF SumsEach, Sums
    <3> QED
      BY <3>1 DEF Elements
  <2>2. ASSUME NEW o \in Elements(m) PROVE o.key \in KeysOf(ops)
    BY DEF Elements, SumsEach
  <2> QED
    BY <2>1, <2>2
<1>4. DOMAIN t = DOMAIN s \cup KeysOf(ops) /\ DOMAIN z = DOMAIN t
  BY <1>2, <1>3 DEF Leaves
<1>5. ASSUME NEW k \in DOMAIN t
      PROVE  t[k].op = z[k].op /\ \E y : FoldsTo(t[k].op, k, ops, y) /\ FoldsTo(t[k].op, k, m, y)
  <2>1. LeavesKey(s, t[k], k, ops) /\ LeavesKey(s, z[k], k, m)
    BY <1>4 DEF Leaves
  <2>2. CASE k \in KeysOf(ops)
    <3>1. PICK j \in 1..Len(m) : Sums(ops, k, m[j]) /\ \A i \in 1..Len(m) : i # j => m[i].key # k
      BY <2>2 DEF SumsEach
    <3>2. PICK o : o = m[j]
      OBVIOUS
    <3>3. o.key = k /\ (\A x \in Elements(ops) : x.key = k => x.op = o.op) /\ FoldsTo(o.op, k, ops, o.value)
      BY <3>1, <3>2 DEF Sums
    <3>4. FoldsTo(o.op, k, m, o.value)
      <4>1. \A i \in 1..Len(m) : j # i => m[i].key # k
        BY <3>1
      <4>2. m[j].key = k
        BY <3>2, <3>3
      <4>3. FoldsTo(m[j].op, k, m, m[j].value)
        BY <1>1, <4>1, <4>2, FoldsOne
      <4> QED
        BY <3>2, <4>3
    <3>5. PICK x \in Elements(ops) : x.key = k
      BY <1>2, <2>2
    <3>6. t[k].op = o.op
      BY <2>1, <3>3, <3>5 DEF LeavesKey
    <3>7. o \in Elements(m)
      BY <3>2 DEF Elements
    <3>8. z[k].op = o.op
      BY <2>1, <3>3, <3>7 DEF LeavesKey
    <3> QED
      BY <3>3, <3>4, <3>6, <3>8
  <2>3. CASE k \notin KeysOf(ops)
    <3>1. k \in DOMAIN s
      BY <1>4, <2>3
    <3>2. t[k].op = s[k].op /\ z[k].op = s[k].op
      BY <2>1, <3>1 DEF LeavesKey
    <3>3. \A i \in 1..Len(ops) : ops[i].key # k
      BY <1>2, <2>3 DEF Elements
    <3>4. \A i \in 1..Len(m) : m[i].key # k
      BY <1>3, <2>3 DEF Elements
    <3>5. FoldsTo(t[k].op, k, ops, Null) /\ FoldsTo(t[k].op, k, m, Null)
      BY <1>1, <3>3, <3>4, FoldsNone
    <3> QED
      BY <3>2, <3>5
  <2> QED
    BY <2>2, <2>3
<1>6. {o.key : o \in Elements(ops)} = {o.key : o \in Elements(m)}
  BY <1>2, <1>3
<1> QED
  BY <1>5, <1>6, LeavesSame

\* The clocks of two updates, merged one after the other.
LEMMA ClocksOfTwo ==
  ASSUME NEW u, NEW v, NEW us, us = <<u, v>>
  PROVE  MergedClocks(us)[2] = MergeClocks(u.clock, v.clock)
<1>1. DOMAIN us = 1..2 /\ us[1] = u /\ us[2] = v
  OBVIOUS
<1>2. PICK f : f = [i \in 1..2 |-> IF i = 1 THEN us[1].clock ELSE MergeClocks(us[1].clock, us[2].clock)]
  OBVIOUS
<1>3. f = [i \in 1..2 |-> IF i = 1 THEN us[1].clock ELSE MergeClocks(f[i - 1], us[i].clock)]
  <2>1. f[1] = us[1].clock /\ f[2] = MergeClocks(us[1].clock, us[2].clock)
    BY <1>2
  <2>2. ASSUME NEW i \in 1..2
        PROVE  f[i] = (IF i = 1 THEN us[1].clock ELSE MergeClocks(f[i - 1], us[i].clock))
    <3>1. CASE i = 1
      BY <2>1, <3>1
    <3>2. CASE i = 2
      <4>1. i - 1 = 1 /\ i # 1
        BY <3>2
      <4> QED
        BY <2>1, <3>2, <4>1
    <3>3. i = 1 \/ i = 2
      OBVIOUS
    <3> QED
      BY <3>1, <3>2, <3>3
  <2>3. f = [i \in 1..2 |-> f[i]]
    BY <1>2
  <2> QED
    BY <2>2, <2>3
<1> DEFINE clock[i \in DOMAIN us] ==
             IF i = 1 THEN us[1].clock ELSE MergeClocks(clock[i - 1], us[i].clock)
<1>4. f = [i \in DOMAIN us |-> IF i = 1 THEN us[1].clock ELSE MergeClocks(f[i - 1], us[i].clock)]
  BY <1>1, <1>3, Zenon
<1>5. clock = [i \in DOMAIN us |-> IF i = 1 THEN us[1].clock ELSE MergeClocks(clock[i - 1], us[i].clock)]
  BY <1>4, Zenon
<1>6. MergedClocks(us) = clock
  BY Zenon DEF MergedClocks
<1> HIDE DEF clock
<1>7. clock[1] = us[1].clock
  <2>1. 1 \in DOMAIN us
    BY <1>1
  <2> QED
    BY <1>5, <2>1
<1>8. clock[2] = MergeClocks(clock[1], us[2].clock)
  <2>1. 2 \in DOMAIN us /\ 2 # 1 /\ 2 - 1 = 1
    BY <1>1
  <2> QED
    BY <1>5, <2>1
<1> QED
  BY <1>1, <1>6, <1>7, <1>8

\* merge_all of two updates is merge_updates of them.
LEMMA MergesOfTwo ==
  ASSUME NEW u, u.operations \in Seq(ExactOperations), u.origin \in Seq(NodeId),
         NEW v, v.operations \in Seq(ExactOperations), v.origin \in Seq(NodeId)
  PROVE  MergeAll(<<u, v>>) = MergeUpdates(u, v)
<1>1. PICK us : us = <<u, v>>
  OBVIOUS
<1>2. DOMAIN us = 1..2 /\ Len(us) = 2 /\ us[1] = u /\ us[2] = v /\ us # <<>> /\ Len(us) # 1
  BY <1>1
<1>3. PICK p, r : p = [i \in DOMAIN us |-> us[i].operations] /\ r = [i \in DOMAIN us |-> us[i].origin]
  OBVIOUS
<1>4. MergeAll(us) = MergeByKey(FlattenSeq(p), MergedClocks(us)[2], FlattenSeq(r))
  BY <1>2, <1>3, Zenon DEF MergeAll
<1>5. 1 \in 1..2 /\ 2 \in 1..2
  OBVIOUS
<1>6. FlattenSeq(p) = u.operations \o v.operations
  <2>1. DOMAIN p = 1..2 /\ p = [i \in 1..2 |-> p[i]] /\ p[1] = u.operations /\ p[2] = v.operations
    BY <1>2, <1>3, <1>5
  <2> QED
    BY <2>1, FlattenTwo
<1>7. FlattenSeq(r) = u.origin \o v.origin
  <2>1. DOMAIN r = 1..2 /\ r = [i \in 1..2 |-> r[i]] /\ r[1] = u.origin /\ r[2] = v.origin
    BY <1>2, <1>3, <1>5
  <2> QED
    BY <2>1, FlattenTwo
<1>8. MergedClocks(us)[2] = MergeClocks(u.clock, v.clock)
  BY <1>1, ClocksOfTwo
<1> QED
  BY <1>1, <1>4, <1>6, <1>7, <1>8, Zenon DEF MergeUpdates

\* A clock of one tick is before the merge of it with that of another node.
LEMMA MergedLater ==
  ASSUME NEW n \in NodeId, NEW m \in NodeId, n # m, NEW c, NEW d,
         c = Tick(EmptyClock, n), d = Tick(EmptyClock, m)
  PROVE  Compare(c, MergeClocks(c, d)) = "Before" /\ Compare(d, MergeClocks(c, d)) = "Before"
<1>1. IsClock(EmptyClock) /\ \A k \in NodeId : Time(EmptyClock, k) = 0
  BY DEF IsClock, EmptyClock, Time
<1>2. /\ IsClock(c) /\ Time(c, n) = 1 /\ \A k \in NodeId \ {n} : Time(c, k) = 0
      /\ IsClock(d) /\ Time(d, m) = 1 /\ \A k \in NodeId \ {m} : Time(d, k) = 0
  BY <1>1, TickTime
<1>3. PICK e : e = MergeClocks(c, d)
  OBVIOUS
<1>4. IsClock(e) /\ \A k \in NodeId : Time(e, k) = Larger(Time(c, k), Time(d, k))
  BY <1>2, <1>3, MergeTime
<1>5. Time(e, n) = 1 /\ Time(e, m) = 1
  BY <1>2, <1>4 DEF Larger
<1>6. \A k \in NodeId : Time(c, k) <= Time(e, k) /\ Time(d, k) <= Time(e, k)
  <2>1. \A k \in NodeId : Time(c, k) \in Nat /\ Time(d, k) \in Nat
    BY <1>2, TimeType
  <2> QED
    BY <1>4, <2>1 DEF Larger
<1>7. ~(Time(e, m) <= Time(c, m)) /\ ~(Time(e, n) <= Time(d, n))
  BY <1>2, <1>5
<1>8. Covers(e, c) /\ Covers(e, d) /\ ~Covers(c, e) /\ ~Covers(d, e)
  BY <1>6, <1>7 DEF Covers
<1> QED
  BY <1>2, <1>3, <1>4, <1>8, CompareCovers

-----------------------------------------------------------------------------
(* Updates one after the other                                              *)

\* What is left when all went well.
LEMMA OneUpdateLeaves ==
  ASSUME FloatsRound, NEW s \in ExactStates, NEW u, u.operations \in Seq(ExactOperations),
         NEW t \in After(s, u)
  PROVE  t \in ExactStates /\ Leaves(s, t, u.operations)
<1>1. PICK r : r = ApplyUpdateToState(s, u) /\ r.ok /\ t = r.state
  BY Zenon DEF After
<1> QED
  BY <1>1, UpdateLeaves

\* What two updates leave when both went well.
LEMMA TwoUpdatesLeave ==
  ASSUME FloatsRound, NEW s \in ExactStates, NEW u, NEW v,
         u.operations \in Seq(ExactOperations), v.operations \in Seq(ExactOperations),
         NEW t \in AfterBoth(s, u, v)
  PROVE  t \in ExactStates /\ Leaves(s, t, u.operations \o v.operations)
<1>1. PICK q \in After(s, u) : t \in After(q, v)
  BY Zenon DEF AfterBoth
<1>2. q \in ExactStates /\ Leaves(s, q, u.operations)
  BY OneUpdateLeaves
<1>3. t \in ExactStates /\ Leaves(q, t, v.operations)
  BY <1>1, <1>2, OneUpdateLeaves
<1> QED
  BY <1>2, <1>3, BothLeave

\* Operations leave the same in one order and in the other.
LEMMA EitherOrder ==
  ASSUME NEW s \in ExactStates, NEW t \in ExactStates, NEW z \in ExactStates,
         NEW a \in Seq(ExactOperations), NEW b \in Seq(ExactOperations),
         Leaves(s, t, a \o b), Leaves(s, z, b \o a)
  PROVE  t = z
<1>1. PICK ab, ba : ab = a \o b /\ ba = b \o a
  OBVIOUS
<1>2. Elements(ab) = Elements(a) \cup Elements(b) /\ Elements(ba) = Elements(b) \cup Elements(a)
  BY <1>1, ElementsJoined
<1>3. Elements(ab) = Elements(ba)
  BY <1>2
<1>4. Leaves(s, t, ab) /\ Leaves(s, z, ba)
  BY <1>1
<1>5. DOMAIN t = DOMAIN z
  BY <1>3, <1>4 DEF Leaves
<1>6. ASSUME NEW k \in DOMAIN t
      PROVE  /\ t[k].op = z[k].op
             /\ \E y : FoldsTo(t[k].op, k, ab, y) /\ FoldsTo(t[k].op, k, ba, y)
  <2>1. LeavesKey(s, t[k], k, ab) /\ LeavesKey(s, z[k], k, ba)
    BY <1>4, <1>5 DEF Leaves
  <2>2. t[k].op = z[k].op
    <3>1. CASE k \in DOMAIN s
      BY <2>1, <3>1 DEF LeavesKey
    <3>2. CASE k \notin DOMAIN s
      <4>1. PICK o \in Elements(ab) : o.key = k
        BY <1>4, <3>2 DEF Leaves
      <4> QED
        BY <1>3, <2>1, <4>1 DEF LeavesKey
    <3> QED
      BY <3>1, <3>2
  <2>3. PICK x \in ExactValues, y \in ExactValues : FoldsTo(t[k].op, k, a, x) /\ FoldsTo(t[k].op, k, b, y)
    <3>1. \E x \in ExactValues : FoldsTo(t[k].op, k, a, x)
      BY FoldsHas
    <3>2. \E y \in ExactValues : FoldsTo(t[k].op, k, b, y)
      BY FoldsHas
    <3> QED
      BY <3>1, <3>2
  <2>4. FoldsTo(t[k].op, k, ab, JoinOf(t[k].op, x, y)) /\ FoldsTo(t[k].op, k, ba, JoinOf(t[k].op, y, x))
    <3>1. FoldsTo(t[k].op, k, a \o b, JoinOf(t[k].op, x, y))
      BY <2>3, FoldsBoth
    <3>2. FoldsTo(t[k].op, k, b \o a, JoinOf(t[k].op, y, x))
      BY <2>3, FoldsBoth
    <3> QED
      BY <1>1, <3>1, <3>2
  <2>5. JoinOf(t[k].op, x, y) = JoinOf(t[k].op, y, x)
    BY ValuesJoin
  <2> QED
    BY <2>2, <2>4, <2>5
<1> QED
  BY <1>3, <1>4, <1>6, LeavesSame

-----------------------------------------------------------------------------
(* Updates *)

\* A state and two transactions that two nodes commit, in no value of which
\* there is a float: what floats sum to depends on the order.
UpdateDomains ==
  /\ Len(Domains["updates"]) = 3 /\ {1, 2} \subseteq NodeId
  /\ Domains["updates"][1] \subseteq ExactStates
  /\ \A i \in 2..3 : \A tx \in Domains["updates"][i] :
       tx \in Seq(ExactOperations) /\ CanCommitLocally(tx)

\* merge_updates stands for the two updates it merged, whatever types of
\* operations there are and however many operations of however many keys.
THEOREM UpdatesCorrect ==
  ASSUME UpdateDomains, FloatsRound
  PROVE  ArgumentsSpec => []MergedUpdateSameEffect
<1>1. ASSUME ArgumentsTyped, Given("updates"),
             NEW u, u = CommitLocal(input[2], 1, EmptyClock).update,
             NEW v, v = CommitLocal(input[3], 2, EmptyClock).update,
             NEW merged, merged = MergeUpdates(u, v)
      PROVE  /\ merged = MergeAll(<<u, v>>)
             /\ merged.ok =>
                  /\ CompareUpdates(u, merged.update) = "Before"
                  /\ CompareUpdates(v, merged.update) = "Before"
                  /\ \A uv \in AfterBoth(input[1], u, v), vu \in AfterBoth(input[1], v, u),
                        once \in After(input[1], merged.update) : uv = once /\ vu = once
  <2>1. \A i \in 1..3 : input[i] \in Domains["updates"][i]
    BY <1>1, ArgumentsGiven DEF UpdateDomains
  <2>2. PICK s \in ExactStates : s = input[1]
    BY <2>1 DEF UpdateDomains
  <2>3. PICK a \in Seq(ExactOperations), b \in Seq(ExactOperations) :
          a = input[2] /\ CanCommitLocally(a) /\ b = input[3] /\ CanCommitLocally(b)
    BY <2>1 DEF UpdateDomains
  <2>4. /\ u = [operations |-> a, clock |-> Tick(EmptyClock, 1), origin |-> <<1>>]
        /\ v = [operations |-> b, clock |-> Tick(EmptyClock, 2), origin |-> <<2>>]
    <3>1. a # <<>> /\ IsFullyAlgebraic(a) /\ b # <<>> /\ IsFullyAlgebraic(b)
      BY <2>3 DEF CanCommitLocally
    <3>2. CommitLocal(a, 1, EmptyClock)
            = Ok([operations |-> a, clock |-> Tick(EmptyClock, 1), origin |-> <<1>>])
      BY <2>3, <3>1, Zenon DEF CommitLocal
    <3>3. CommitLocal(b, 2, EmptyClock)
            = Ok([operations |-> b, clock |-> Tick(EmptyClock, 2), origin |-> <<2>>])
      BY <2>3, <3>1, Zenon DEF CommitLocal
    <3> QED
      BY <1>1, <2>3, <3>2, <3>3 DEF Ok
  <2>5. /\ u.operations = a /\ v.operations = b /\ u.origin = <<1>> /\ v.origin = <<2>>
        /\ u.clock = Tick(EmptyClock, 1) /\ v.clock = Tick(EmptyClock, 2)
    BY <2>4
  <2>6. merged = MergeAll(<<u, v>>)
    <3>1. /\ u.operations \in Seq(ExactOperations) /\ v.operations \in Seq(ExactOperations)
          /\ u.origin \in Seq(NodeId) /\ v.origin \in Seq(NodeId)
      BY <2>5 DEF UpdateDomains
    <3>2. MergeAll(<<u, v>>) = MergeUpdates(u, v)
      BY <3>1, MergesOfTwo
    <3> QED
      BY <1>1, <3>2
  <2>7. PICK ab \in Seq(ExactOperations) : ab = a \o b
    <3>1. a \o b \in Seq(ExactOperations)
      OBVIOUS
    <3> QED
      BY <3>1
  <2>8. PICK clock, origin : /\ clock = MergeClocks(u.clock, v.clock)
                             /\ merged = MergeByKey(ab, clock, origin)
    BY <1>1, <2>5, <2>7 DEF MergeUpdates
  <2>9. ASSUME merged.ok
        PROVE  merged.update.clock = clock /\ SumsEach(ab, merged.update.operations)
    <3>1. MergeByKey(ab, clock, origin).ok
      BY <2>8, <2>9
    <3>2. /\ MergeByKey(ab, clock, origin).update.clock = clock
          /\ SumsEach(ab, MergeByKey(ab, clock, origin).update.operations)
      BY <3>1, MergedSums
    <3> QED
      BY <2>8, <3>2
  <2>10. ASSUME merged.ok
         PROVE  /\ CompareUpdates(u, merged.update) = "Before"
                /\ CompareUpdates(v, merged.update) = "Before"
    <3>1. 1 \in NodeId /\ 2 \in NodeId /\ 1 # 2
      BY DEF UpdateDomains
    <3>2. Compare(u.clock, clock) = "Before" /\ Compare(v.clock, clock) = "Before"
      BY <2>5, <2>8, <3>1, MergedLater
    <3> QED
      BY <2>9, <2>10, <3>2 DEF CompareUpdates
  <2>11. ASSUME merged.ok,
                NEW uv \in AfterBoth(input[1], u, v), NEW vu \in AfterBoth(input[1], v, u),
                NEW once \in After(input[1], merged.update)
         PROVE  uv = once /\ vu = once
    <3>1. PICK m : m = merged.update /\ SumsEach(ab, m.operations)
      BY <2>9, <2>11
    <3>2. uv \in AfterBoth(s, u, v) /\ vu \in AfterBoth(s, v, u) /\ once \in After(s, m)
      BY <2>2, <2>11, <3>1
    <3>3. uv \in ExactStates /\ Leaves(s, uv, a \o b)
      BY <2>5, <3>2, TwoUpdatesLeave
    <3>4. vu \in ExactStates /\ Leaves(s, vu, b \o a)
      BY <2>5, <3>2, TwoUpdatesLeave
    <3>5. once \in ExactStates /\ Leaves(s, once, m.operations)
      <4>1. m.operations \in Seq(ExactOperations)
        BY <3>1 DEF SumsEach
      <4> QED
        BY <3>2, <4>1, OneUpdateLeaves
    <3>6. uv = vu
      BY <3>3, <3>4, EitherOrder
    <3>7. uv = once
      BY <2>7, <3>1, <3>3, <3>5, SumsLeave
    <3> QED
      BY <3>6, <3>7
  <2> QED
    BY <2>6, <2>10, <2>11
<1>2. ASSUME ArgumentsTyped PROVE MergedUpdateSameEffect
  <2>1. CASE ~Given("updates")
    BY <2>1 DEF MergedUpdateSameEffect
  <2>2. CASE Given("updates")
    <3> DEFINE StandsFor(merged, u, v) ==
                 /\ merged = MergeAll(<<u, v>>)
                 /\ merged.ok =>
                      /\ CompareUpdates(u, merged.update) = "Before"
                      /\ CompareUpdates(v, merged.update) = "Before"
                      /\ \A uv \in AfterBoth(input[1], u, v), vu \in AfterBoth(input[1], v, u),
                            once \in After(input[1], merged.update) : uv = once /\ vu = once
    <3>1. ASSUME NEW u \in {CommitLocal(input[2], 1, EmptyClock).update},
                 NEW v \in {CommitLocal(input[3], 2, EmptyClock).update},
                 NEW merged \in {MergeUpdates(u, v)}
          PROVE  StandsFor(merged, u, v)
      <4>1. /\ u = CommitLocal(input[2], 1, EmptyClock).update
            /\ v = CommitLocal(input[3], 2, EmptyClock).update
            /\ merged = MergeUpdates(u, v)
        OBVIOUS
      <4> QED
        BY <1>1, <1>2, <2>2, <4>1
    <3>2. \A u \in {CommitLocal(input[2], 1, EmptyClock).update},
             v \in {CommitLocal(input[3], 2, EmptyClock).update} :
            \A merged \in {MergeUpdates(u, v)} : StandsFor(merged, u, v)
      <4> HIDE DEF StandsFor
      <4> QED
        BY <3>1, Zenon
    <3> QED
      BY <3>2, Zenon DEF MergedUpdateSameEffect
  <2> QED
    BY <2>1, <2>2
<1> QED
  BY <1>2, ArgumentsCorrect, PTL
=============================================================================
