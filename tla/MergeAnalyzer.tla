---------------------------- MODULE MergeAnalyzer ----------------------------
(***************************************************************************)
(* rhizo_core/src/branch/merge.rs: which of the tables two branches both   *)
(* changed can be merged value by value, judged by the schemas of a        *)
(* registry.                                                               *)
(***************************************************************************)
EXTENDS BranchDiff, AlgebraicSchema

\* can_auto_merge_table
CanAutoMergeTable(registry, t) ==
  t \in DOMAIN registry /\ IsFullyConflictFree(registry[t])

\* analyze; what one side alone changed is in none of its lists.
Analyze(diff, registry) ==
  LET mergeable == {t \in diff.modified : CanAutoMergeTable(registry, t)}
  IN [autoMergeable |-> mergeable,
      conflicting |-> diff.modified \ mergeable,
      sourceOnly |-> diff.addedInSource,
      targetOnly |-> diff.addedInTarget,
      unchanged |-> diff.unchanged]

\* can_merge and tables_to_merge of the analysis
CanMerge(analysis) == analysis.conflicting = {}
TablesToMerge(analysis) == analysis.autoMergeable \cup analysis.sourceOnly \cup analysis.targetOnly

\* analyze_table_columns, and analyze_columns of what both sides changed.
AnalyzeTableColumns(registry, t) ==
  IF t \in DOMAIN registry
  THEN <<ConflictFreeColumns(registry[t]), ConflictingColumns(registry[t])>>
  ELSE <<{}, {}>>
AnalyzeColumns(diff, registry) == [t \in diff.modified |-> AnalyzeTableColumns(registry, t)]
=============================================================================
