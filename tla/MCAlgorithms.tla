----------------------------- MODULE MCAlgorithms -----------------------------
(***************************************************************************)
(* Small domains for the algorithms.                                       *)
(***************************************************************************)
EXTENDS Algorithms

MCMinInt == -4
MCFloatValues == {-8, -4, -2, -1, 0, 1, 2, 4, 8}
MCH1 == [item \in {"t", "u"} \X (1..3) |-> (IF item[1] = "t" THEN 3 ELSE 5) * item[2]]
MCH2 == [item \in {"t", "u"} \X (1..3) |-> (IF item[1] = "t" THEN 7 ELSE 2) + item[2]]

Values ==
  {Integer(i) : i \in MCMinInt..MaxInt} \cup {Float(h) : h \in MCFloatValues}
    \cup {StringSet(s) : s \in SUBSET Strings} \cup {IntSet({}), IntSet({1}), IntSet({1, 2})}
    \cup {Boolean(b) : b \in BOOLEAN} \cup {Null}

Clocks == UNION {[ns -> 0..2] : ns \in SUBSET NodeId}

\* Transactions of one or two operations that keep to one type per key.
AddOperations == {Operation("counter", "ADD", Integer(i)) : i \in {-3, 1, 2}}
OtherOperations ==
  {Operation("top", "MAX", Integer(1)), Operation("top", "MAX", Integer(3)),
   Operation("tags", "UNION", StringSet({"a"})), Operation("tags", "INTERSECT", StringSet({"b"})),
   Operation("factor", "MULTIPLY", Integer(2))}
Transactions ==
  {<<o>> : o \in AddOperations \cup OtherOperations}
    \cup {<<o, p>> : o \in AddOperations, p \in AddOperations \cup OtherOperations}
States ==
  {EmptyState,
   [counter |-> [op |-> "ADD", value |-> Integer(3)],
    top     |-> [op |-> "MAX", value |-> Integer(2)],
    tags    |-> [op |-> "UNION", value |-> StringSet({"b"})],
    factor  |-> [op |-> "MULTIPLY", value |-> Integer(-2)]]}

\* Schemas of which some are fully conflict-free.
Schemas ==
  {NewSchema("ADD"), NewSchema("UNKNOWN")}
    \cup {AddColumn(NewSchema(default), "c", op) :
            default \in {"ADD", "OVERWRITE"}, op \in {"MAX", "UNION", "OVERWRITE"}}
Registries ==
  {RegisterSchema(r, "u", s) : s \in Schemas,
     r \in {[t \in {} |-> NewSchema("ADD")]} \cup {[t \in {"t"} |-> s] : s \in Schemas}}
    \cup {[t \in {} |-> NewSchema("ADD")]}
Heads == UNION {[ts -> 0..2] : ts \in SUBSET Tables}

\* Names of one to four characters.
Names == UNION {[1..n -> {"a", "_", "/"}] : n \in 1..4}

\* Up to two writes in either order, of one table in every way, of another in two.
Writes == [table : {"t"}, granularity : {"WholeTable", "Keys"}, parts : {{}}]
            \cup [table : {"u"}, granularity : {"WholeTable"}, parts : {{}}]
            \cup [table : {"t"}, granularity : {"Partitions"}, parts : {{}, {1}, {2}, {1, 2}}]
            \cup [table : {"u"}, granularity : {"Partitions"}, parts : {{1}}]
WriteLists == UNION {[1..n -> Writes] : n \in 0..2}
Rows == SUBSET (Tables \X (1..3))
Filters == {<<16, 1>>, <<16, 3>>, <<11, 2>>}

\* Up to five bytes, and two hashes of some of them, which make the tree of one
\* chunk that holds them one with a tree of two chunks.
Byte(b) == <<"byte", <<b>>>>
Bytes(n) == [1..n -> {Byte(0), Byte(1)}]
Data == UNION {Bytes(n) : n \in 1..5}
          \cup {<<HashData(d), HashData(e)>> : d \in Bytes(2), e \in Bytes(1)}

\* Up to three rows; none, one, or two filters.
DataRows == {[i |-> i, f |-> f] : i \in {Int64(1), Int64(2), NullValue}, f \in {Float64(1), NullValue}}
DataBatches == UNION {[1..n -> DataRows] : n \in 1..3}
Layouts == {<<1, TRUE>>, <<2, TRUE>>, <<2, FALSE>>}
IntFilters == {Filter("i", op, Int64(k)) : op \in FilterOp, k \in 1..2}
FloatFilters == {Filter("f", op, Float64(1)) : op \in FilterOp}
RowFilters == {<<>>} \cup {<<f>> : f \in IntFilters \cup FloatFilters}
                \cup {<<f, g>> : f \in {h \in IntFilters : h.value = Int64(2)}, g \in FloatFilters}

\* Up to three commits, with identifiers in or out of order.
Commits(ids, i) ==
  [txId : {ids[i]}, committedAt : {i}, branch : {"main", "dev"},
   writes : UNION {[ts -> {i}] : ts \in SUBSET Tables \ {{}}}]
Logs ==
  {<<>>} \cup {<<c>> : c \in Commits(<<1>>, 1)}
    \cup UNION {{<<c, d>> : c \in Commits(ids, 1), d \in Commits(ids, 2)} : ids \in {<<1, 2>>, <<2, 1>>}}
    \cup UNION {{<<c, d, e>> : c \in Commits(ids, 1), d \in Commits(ids, 2), e \in Commits(ids, 3)} :
                  ids \in {<<1, 2, 3>>, <<1, 3, 2>>, <<2, 1, 3>>}}
Queries == [sinceTx : {{}, {1}, {2}}, sinceTime : {{}, {2}}, tables : {{}, {{"t"}}},
            branch : {{}, {"main"}}, limit : {{}, {1}, {2}}]

\* Masses of up to five numbers of requests; what is missing from 1 is the tail.
Masses == {m \in [0..4 -> 0..Certain] : PoissonCdf(4, 1, m) <= Certain}

MCDomains ==
  [merge |-> <<OpType, Values, Values, Values>>,
   clocks |-> <<Clocks, Clocks, Clocks>>,
   updates |-> <<States, Transactions, Transactions>>,
   schema |-> <<OpType, Columns \X OpType, Columns \X OpType>>,
   branches |-> <<Heads, Heads, Heads>>,
   analysis |-> <<Heads, Heads, Registries>>,
   names |-> <<Names, Names>>,
   writes |-> <<WriteLists, WriteLists>>,
   rows |-> <<Rows, Rows, Filters, Filters>>,
   chunks |-> <<Data, Data, 1..3, 2..3>>,
   quantile |-> <<-1..(Certain + 1), 0..2, Masses>>,
   changelog |-> <<Logs, Queries>>,
   groups |-> <<DataBatches, Layouts, RowFilters, {{}, {"f"}}>>]
=============================================================================
