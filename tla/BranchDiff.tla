----------------------------- MODULE BranchDiff -----------------------------
(***************************************************************************)
(* rhizo_core/src/branch/branch.rs: the three-way comparison of branches,  *)
(* and what branch/manager.rs merges of it.  A head maps tables to their   *)
(* versions; a base is a head, or NoBase for a branch without fork point.  *)
(***************************************************************************)
EXTENDS Integers, FiniteSets, Sequences
LOCAL INSTANCE SequencesExt

CONSTANT NoBase

IsHead(h, tables) == DOMAIN h \subseteq tables /\ \A t \in DOMAIN h : h[t] \in Nat

\* set_table_version
SetVersion(h, t, v) == [u \in DOMAIN h \cup {t} |-> IF u = t THEN v ELSE h[u]]

\* The tables whose versions differ, and those of them one side did not touch.
Differ(src, tgt) == {t \in DOMAIN src \cap DOMAIN tgt : src[t] # tgt[t]}
\* Mutant: a table the base does not have counts as unchanged.
UnchangedSinceOrNew(base, h, t) == base # NoBase => t \notin DOMAIN base \/ h[t] = base[t]

UnchangedSince(base, h, t) == base # NoBase /\ t \in DOMAIN base /\ h[t] = base[t]

\* compute_with_base
DiffWithBase(src, tgt, base) ==
  LET sourceOnly == {t \in Differ(src, tgt) : UnchangedSince(base, tgt, t)}
      targetOnly == {t \in Differ(src, tgt) : UnchangedSince(base, src, t)}
  IN [unchanged |-> {t \in DOMAIN src \cap DOMAIN tgt : src[t] = tgt[t]},
      modified |-> Differ(src, tgt) \ (sourceOnly \cup targetOnly),
      addedInSource |-> DOMAIN src \ DOMAIN tgt,
      addedInTarget |-> DOMAIN tgt \ DOMAIN src,
      sourceOnly |-> sourceOnly,
      targetOnly |-> targetOnly]

HasConflicts(diff) == diff.modified # {}

\* can_auto_merge, which can_fast_forward of the manager answers
CanAutoMerge(diff) == ~HasConflicts(diff)

\* merge_fast_forward with a diff: what becomes of the head it is applied to.
ApplyDiff(head, src, diff) ==
  LET taken == diff.sourceOnly \cup diff.addedInSource
  IN [t \in DOMAIN head \cup taken |-> IF t \in taken THEN src[t] ELSE head[t]]

\* ... and without a fork point: whatever is higher in the source.
ApplyForward(head, src) ==
  [t \in DOMAIN head \cup {u \in DOMAIN src : src[u] > 0} |->
     IF t \in DOMAIN src /\ (t \notin DOMAIN head \/ src[t] > head[t]) THEN src[t] ELSE head[t]]

-----------------------------------------------------------------------------
(* Names of branches, as sequences of the characters that occur in them.   *)

HasText(name, text) ==
  \E i \in 1..(Len(name) - Len(text) + 1) : SubSeq(name, i, i + Len(text) - 1) = text

\* validate_branch_name, of characters that are all allowed.
ValidBranchName(name) ==
  /\ name # <<>> /\ ~IsPrefix(<<"_">>, name)
  /\ ~HasText(name, <<"/", "/">>) /\ ~HasText(name, <<"_", "_">>)

\* branch_path: the name of the file of a branch.
BranchPath(name) ==
  LET upTo[i \in 0..Len(name)] ==
        IF i = 0 THEN <<>>
        ELSE upTo[i - 1] \o (IF name[i] = "/" THEN <<"_", "_">> ELSE <<name[i]>>)
  IN upTo[Len(name)]

\* list: the name it makes of a file, each "__" from the left a slash again.
ListedName(file) ==
  LET from[i \in 1..(Len(file) + 1)] ==
        CASE i > Len(file) -> <<>>
          [] i < Len(file) /\ SubSeq(file, i, i + 1) = <<"_", "_">> -> <<"/">> \o from[i + 2]
          [] OTHER -> <<file[i]>> \o from[i + 1]
  IN from[1]
=============================================================================
