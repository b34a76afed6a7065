--------------------------- MODULE RowGroupPruning ---------------------------
(***************************************************************************)
(* rhizo_core/src/parquet: encoder.rs, decoder.rs and filter.rs.  A file   *)
(* keeps rows in row groups; a filtered read skips row groups by their     *)
(* statistics and filters the rows of the others.  A value is its type and *)
(* its contents; a float may be NaN, which the writer leaves out of the    *)
(* statistics, and any value may be Null.  Columns are flat and a filter   *)
(* has the type of its column, any other is an error.  Strings compare     *)
(* like integers and are left out.  A read answers the rows; none stands   *)
(* for the error EmptyData.                                                *)
(***************************************************************************)
EXTENDS Integers, Sequences, FiniteSets
LOCAL INSTANCE SequencesExt

CONSTANT NaN    \* not a number

FilterOp == {"Eq", "Ne", "Lt", "Le", "Gt", "Ge"}

Int64(i) == <<"Int64", i>>
Float64(x) == <<"Float64", x>>
NullValue == <<"Null", 0>>

\* compare_ord
CompareOrd(a, b, op) ==
  CASE op = "Eq" -> a = b [] op = "Ne" -> a # b
    [] op = "Lt" -> a < b [] op = "Le" -> a <= b
    [] op = "Gt" -> a > b [] op = "Ge" -> a >= b

\* ScalarValue::compare, and its answer where None counts as false.
Comparable(v, w) == v[1] = w[1] /\ v[1] # "Null"
IsNaN(v) == v = Float64(NaN)
Compares(v, w, op) ==
  /\ Comparable(v, w)
  /\ IF IsNaN(v) \/ IsNaN(w) THEN op = "Ne" ELSE CompareOrd(v[2], w[2], op)

Filter(column, op, v) == [column |-> column, op |-> op, value |-> v]

\* PredicateFilter::can_prune_row_group; min and max are sets of at most one
\* value, none when the statistics do not have it.
CanPrune(f, min, max) ==
  LET Holds(stat, op) == \E s \in stat : Compares(s, f.value, op)
      Below(stat, op) == \E s \in stat : Compares(f.value, s, op)
  IN CASE f.op = "Gt" -> Holds(max, "Le")
       [] f.op = "Ge" -> Holds(max, "Lt")
       [] f.op = "Lt" -> Holds(min, "Ge")
       [] f.op = "Le" -> Holds(min, "Gt")
       [] f.op = "Eq" -> Below(min, "Lt") \/ Below(max, "Gt")
       [] f.op = "Ne" -> Holds(min, "Eq") /\ Holds(max, "Eq")

-----------------------------------------------------------------------------
(* The encoder, for rows that are not none.                                 *)

\* encode: row groups of at most size rows, with or without statistics.
Encode(rows, size, statistics) ==
  [groups |-> [i \in 1..((Len(rows) + size - 1) \div size) |->
                 SubSeq(rows, (i - 1) * size + 1, IF i * size < Len(rows) THEN i * size ELSE Len(rows))],
   statistics |-> statistics]

\* encode_batch: a file for each batch.
EncodeBatch(batches, size, statistics) ==
  [i \in DOMAIN batches |-> Encode(batches[i], size, statistics)]

\* Mutant: the statistics count the first row.
CountedFirst(group, c) ==
  {v \in {group[i][c] : i \in DOMAIN group \cap {1}} : v # NullValue /\ ~IsNaN(v)}

\* The values of a column the writer's statistics count.
Counted(group, c) == {v \in {group[i][c] : i \in DOMAIN group} : v # NullValue /\ ~IsNaN(v)}

Least(vs) == {v \in vs : \A w \in vs : v[2] <= w[2]}
Greatest(vs) == {v \in vs : \A w \in vs : v[2] >= w[2]}

\* extract_column_stats
MinStat(file, i, c) == IF file.statistics THEN Least(Counted(file.groups[i], c)) ELSE {}
MaxStat(file, i, c) == IF file.statistics THEN Greatest(Counted(file.groups[i], c)) ELSE {}

-----------------------------------------------------------------------------
(* The decoder.  columns are the ones asked for, {} for all of them; a read *)
(* answers them in the order of the schema, each once.                      *)

Project(rows, columns) ==
  IF columns = {} THEN rows ELSE [i \in DOMAIN rows |-> [c \in columns |-> rows[i][c]]]

Decode(file) == FlattenSeq(file.groups)
DecodeBatch(files) == [i \in DOMAIN files |-> Decode(files[i])]
DecodeColumns(file, columns) == Project(Decode(file), columns)

\* can_prune_row_group of the decoder: any filter can.
CanPruneRowGroup(file, i, filters) ==
  \E k \in DOMAIN filters :
    LET c == filters[k].column
    IN CanPrune(filters[k], MinStat(file, i, c), MaxStat(file, i, c))

\* apply_single_filter: Arrow's kernels order NaN above every number and give
\* null for a null, which the reader takes for false.
RowMatches(row, f) ==
  LET v == row[f.column]
  IN /\ v # NullValue
     /\ IF IsNaN(v) \/ IsNaN(f.value)
        THEN CASE IsNaN(v) /\ IsNaN(f.value) -> f.op \in {"Eq", "Le", "Ge"}
               [] IsNaN(v) /\ ~IsNaN(f.value) -> f.op \in {"Ne", "Gt", "Ge"}
               [] ~IsNaN(v) /\ IsNaN(f.value) -> f.op \in {"Ne", "Lt", "Le"}
        ELSE CompareOrd(v[2], f.value[2], f.op)

\* apply_filters: all filters hold.
RowSelected(row, filters) == \A i \in DOMAIN filters : RowMatches(row, filters[i])

\* The row filter of decode_with_filter: the rows that match, in order.
Selected(rows, filters) ==
  FlattenSeq([i \in DOMAIN rows |-> IF RowSelected(rows[i], filters) THEN <<rows[i]>> ELSE <<>>])

\* decode_with_filter: of the row groups that are left, the rows that match;
\* the columns of a filter need not be asked for.
KeptGroups(file, filters) == {i \in DOMAIN file.groups : ~CanPruneRowGroup(file, i, filters)}
DecodeWithFilter(file, filters, columns) ==
  IF filters = <<>> THEN DecodeColumns(file, columns)
  ELSE LET kept == [i \in DOMAIN file.groups |->
                      IF i \in KeptGroups(file, filters) THEN file.groups[i] ELSE <<>>]
       IN Project(Selected(FlattenSeq(kept), filters), columns)

\* get_pruning_stats: groups in all, pruned and kept.
PruningStats(file, filters) ==
  LET total == Len(file.groups)
      kept == Cardinality(KeptGroups(file, filters))
  IN IF filters = <<>> THEN <<total, 0, total>> ELSE <<total, total - kept, kept>>
=============================================================================
