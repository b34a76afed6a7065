--------------------------- MODULE AlgebraicMerge ---------------------------
(***************************************************************************)
(* rhizo_core/src/algebraic/types.rs and merge.rs: the values of           *)
(* coordination-free operations and their merge.                           *)
(*                                                                         *)
(* Machine numbers are scaled down and keep their edges.  An integer is in *)
(* MinInt..MaxInt and checked arithmetic fails outside.  A float is a      *)
(* number of halves (7 is 3.5) in FloatValues, the representable ones, and *)
(* every float operation rounds its exact result to the nearest of them,   *)
(* ties to even, as IEEE 754 does.  NaN, the infinities and the sign of    *)
(* zero are left out.                                                      *)
(***************************************************************************)
EXTENDS Integers, FiniteSets

CONSTANTS
  MinInt, MaxInt,  \* i64::MIN and i64::MAX
  FloatValues,     \* the representable floats, in halves
  Strings          \* the strings that occur in sets

ASSUME IntAssumption == MinInt \in Int /\ MaxInt \in Int /\ MinInt < 0 /\ 0 < MaxInt
ASSUME FloatAssumption == FloatValues \subseteq Int /\ 0 \in FloatValues

-----------------------------------------------------------------------------
(* types.rs *)

Semilattice == {"MAX", "MIN", "UNION", "INTERSECT"}   \* is_semilattice
Abelian     == {"ADD", "MULTIPLY"}                    \* is_abelian
ConflictFree == Semilattice \cup Abelian              \* is_conflict_free
OpType == ConflictFree \cup {"OVERWRITE", "CONDITIONAL", "UNKNOWN"}

\* A value is its type and its contents.
Integer(i)   == <<"Integer", i>>
Float(h)     == <<"Float", h>>
StringSet(s) == <<"StringSet", s>>
IntSet(s)    == <<"IntSet", s>>
Boolean(b)   == <<"Boolean", b>>
Null         == <<"Null", 0>>

IsNumeric(v) == v[1] \in {"Integer", "Float"}
IsNull(v) == v[1] = "Null"

AlgebraicValue ==
  ({"Integer"} \X (MinInt..MaxInt)) \cup ({"Float"} \X FloatValues)
    \cup ({"StringSet"} \X SUBSET Strings) \cup ({"IntSet"} \X SUBSET (MinInt..MaxInt))
    \cup ({"Boolean"} \X BOOLEAN) \cup {Null}

Distance(i, j) == IF i >= j THEN i - j ELSE j - i

\* The float nearest to n / d, ties to the even one.
Nearest(n, d) ==
  LET closest == {f \in FloatValues :
                    \A g \in FloatValues : Distance(f * d, n) <= Distance(g * d, n)}
  IN CHOOSE f \in closest :
       \A g \in closest : f # g => f % (2 * Distance(f, g)) = 0

\* `v as f64' of an integer, `h as i64' of an integral float: it saturates.
ToFloat(i) == Nearest(2 * i, 1)
ToInteger(h) == LET i == h \div 2
                IN IF i < MinInt THEN MinInt ELSE IF i > MaxInt THEN MaxInt ELSE i

\* The test of as_integer and of numeric_result, whose bounds are floats.
FitsInteger(h) == h % 2 = 0 /\ ToFloat(MinInt) <= h /\ h <= ToFloat(MaxInt)

\* as_integer and as_float: the answers they can give, none for None.
AsInteger(v) ==
  CASE v[1] = "Integer" -> {v[2]}
    [] v[1] = "Float" /\ FitsInteger(v[2]) -> {ToInteger(v[2])}
    [] OTHER -> {}

AsFloat(v) ==
  CASE v[1] = "Float" -> {v[2]}
    [] v[1] = "Integer" /\ v[2] # MaxInt
         /\ ToInteger(ToFloat(v[2])) = v[2] -> {ToFloat(v[2])}
    [] OTHER -> {}

-----------------------------------------------------------------------------
(* merge.rs *)

Merged(v) == [outcome |-> "Merged", value |-> v]
Conflict == [outcome |-> "Conflict"]
TypeMismatch == [outcome |-> "TypeMismatch"]

IsMerged(r) == r.outcome = "Merged"

\* A float result is given back as an integer when it is one.
NumericResult(h) == IF FitsInteger(h) THEN Integer(ToInteger(h)) ELSE Float(h)

Upper(i, j) == IF i >= j THEN i ELSE j
Lower(i, j) == IF i <= j THEN i ELSE j
\* Mutant: an integer sum saturates.
SaturatingSum(i, j) == IF i + j > MaxInt THEN MaxInt ELSE IF i + j < MinInt THEN MinInt ELSE i + j

IntegerSum(i, j) == i + j
IntegerProduct(i, j) == i * j
FloatSum(g, h) == Nearest(g + h, 1)
FloatProduct(g, h) == Nearest(g * h, 2)

HaveType(v, w, type) == v[1] = type /\ w[1] = type
FloatOf(v) == IF v[1] = "Integer" THEN ToFloat(v[2]) ELSE v[2]

\* The numeric arms of the merge functions.
MergeNumbers(v, w, IntegerOp(_, _), FloatOp(_, _)) ==
  IF HaveType(v, w, "Integer")
  THEN LET r == IntegerOp(v[2], w[2])
       IN IF r \in MinInt..MaxInt THEN Merged(Integer(r)) ELSE Conflict
  ELSE LET r == FloatOp(FloatOf(v), FloatOf(w))
       IN Merged(IF HaveType(v, w, "Float") THEN Float(r) ELSE NumericResult(r))

MergeMax(v, w) ==
  CASE IsNumeric(v) /\ IsNumeric(w) -> MergeNumbers(v, w, Upper, Upper)
    [] HaveType(v, w, "Boolean") -> Merged(Boolean(v[2] \/ w[2]))
    [] OTHER -> TypeMismatch

MergeMin(v, w) ==
  CASE IsNumeric(v) /\ IsNumeric(w) -> MergeNumbers(v, w, Lower, Lower)
    [] HaveType(v, w, "Boolean") -> Merged(Boolean(v[2] /\ w[2]))
    [] OTHER -> TypeMismatch

MergeUnion(v, w) ==
  CASE HaveType(v, w, "StringSet") -> Merged(StringSet(v[2] \cup w[2]))
    [] HaveType(v, w, "IntSet") -> Merged(IntSet(v[2] \cup w[2]))
    [] HaveType(v, w, "Boolean") -> Merged(Boolean(v[2] \/ w[2]))
    [] OTHER -> TypeMismatch

MergeIntersect(v, w) ==
  CASE HaveType(v, w, "StringSet") -> Merged(StringSet(v[2] \cap w[2]))
    [] HaveType(v, w, "IntSet") -> Merged(IntSet(v[2] \cap w[2]))
    [] HaveType(v, w, "Boolean") -> Merged(Boolean(v[2] /\ w[2]))
    [] OTHER -> TypeMismatch

MergeAdd(v, w) ==
  IF IsNumeric(v) /\ IsNumeric(w)
  THEN MergeNumbers(v, w, IntegerSum, FloatSum) ELSE TypeMismatch

MergeMultiply(v, w) ==
  IF IsNumeric(v) /\ IsNumeric(w)
  THEN MergeNumbers(v, w, IntegerProduct, FloatProduct) ELSE TypeMismatch

\* Null is the identity of every operation, the non-algebraic ones included.
Merge(op, v, w) ==
  CASE IsNull(v) -> Merged(w)
    [] IsNull(w) /\ ~IsNull(v) -> Merged(v)
    [] OTHER ->
       CASE op = "MAX" -> MergeMax(v, w)
         [] op = "MIN" -> MergeMin(v, w)
         [] op = "UNION" -> MergeUnion(v, w)
         [] op = "INTERSECT" -> MergeIntersect(v, w)
         [] op = "ADD" -> MergeAdd(v, w)
         [] op = "MULTIPLY" -> MergeMultiply(v, w)
         [] OTHER -> Conflict
=============================================================================
