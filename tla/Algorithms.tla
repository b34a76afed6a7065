----------------------------- MODULE Algorithms -----------------------------
(***************************************************************************)
(* The pure algorithms of the core, each checked against what it promises  *)
(* over all small inputs.  A behaviour chooses a subject and then appends, *)
(* one at a time, arguments of the subject's domains.                      *)
(***************************************************************************)
EXTENDS MergeAnalyzer, SequencesExt, ChangelogQuery, ConflictDetection, MerkleTree,
        RowGroupPruning, PoissonQuota, NodeState

CONSTANTS
  Domains,   \* subject -> the sequence of the domains of its arguments
  Parts      \* the partitions of a table

\* The domains of a subject are a sequence.
ASSUME DomainsAssumption ==
  \A s \in DOMAIN Domains : Len(Domains[s]) \in Nat /\ DOMAIN Domains[s] = 1..Len(Domains[s])

VARIABLES
  subject,
  input     \* the arguments chosen so far

arguments == <<subject, input>>

NoArguments == subject \in DOMAIN Domains /\ input = <<>>

ChooseArgument ==
  /\ Len(input) < Len(Domains[subject])
  /\ \E x \in Domains[subject][Len(input) + 1] : input' = Append(input, x)
  /\ UNCHANGED subject

ArgumentsSpec == NoArguments /\ [][ChooseArgument]_arguments

\* The arguments of a subject are complete.
Given(s) == subject = s /\ Len(input) = Len(Domains[s])

-----------------------------------------------------------------------------
(* merge.rs: an operation and three values.                                *)

\* Two nodes that merge the same two values get the same result, whichever
\* came first, with its type and with its errors (AlgebraicMerger::merge).
MergeCommutes ==
  Given("merge") =>
    Merge(input[1], input[2], input[3]) = Merge(input[1], input[3], input[2])

\* as_integer and as_float give the number the value is or nothing, rounding
\* never; of the float 2^63 alone as_integer makes another number.
ConversionsExact ==
  Given("merge") =>
    LET v == input[2]
        Halves(w) == IF w[1] = "Integer" THEN 2 * w[2] ELSE w[2]
    IN /\ \A h \in AsFloat(v) : h = Halves(v)
       /\ v # Float(ToFloat(MaxInt)) => \A i \in AsInteger(v) : 2 * i = Halves(v)

\* How three values of one type are grouped and repeated does not matter to
\* the semilattice operations; integer sums and products that do not overflow
\* on either way agree.
GroupingIrrelevant ==
  Given("merge") =>
    LET op == input[1]
        left == Merge(op, input[2], input[3])
        right == Merge(op, input[3], input[4])
        leftmost == Merge(op, left.value, input[4])
        rightmost == Merge(op, input[2], right.value)
    IN {input[3][1], input[4][1]} = {input[2][1]} =>
         CASE op \in Semilattice ->
                /\ Merge(op, input[2], input[2]) \in {Merged(input[2]), TypeMismatch}
                /\ IsMerged(left) = IsMerged(right)
                /\ IsMerged(left) => leftmost = rightmost
           [] op \in Abelian /\ input[2][1] = "Integer" ->
                IsMerged(left) /\ IsMerged(right) /\ IsMerged(leftmost) /\ IsMerged(rightmost)
                  => leftmost = rightmost
           [] OTHER -> TRUE

\* Values can be merged in any order.
ValueLaws == MergeCommutes /\ ConversionsExact /\ GroupingIrrelevant

-----------------------------------------------------------------------------
(* vector_clock.rs: three clocks.                                          *)

\* Clocks are a lattice under compare and merge: what a node tells from the
\* clocks of updates is consistent, in whatever order it meets them.
ClockLaws ==
  Given("clocks") => /\ CompareIsPartialOrder(input[1], input[2], input[3])
                     /\ ClockMergeIsJoin(input[1], input[2], input[3])

\* What the nodes rely on when they merge values and clocks in any order.
MergeLaws == ValueLaws /\ ClockLaws

-----------------------------------------------------------------------------
(* local_commit.rs: a state and the transactions of two concurrent updates. *)

\* The state an update leaves, and the one two updates leave one after the
\* other; none when one of them meets an error.
After(s, u) == {r.state : r \in {a \in {ApplyUpdateToState(s, u)} : a.ok}}
AfterBoth(s, u, v) == UNION {After(t, v) : t \in After(s, u)}

\* merge_updates stands for the two updates it merged: applied at once it
\* leaves the state both leave one after the other, in either order, wherever
\* no operation overflows or mismatches; and it is later than both.
MergedUpdateSameEffect ==
  Given("updates") =>
    \A u \in {CommitLocal(input[2], 1, EmptyClock).update},
       v \in {CommitLocal(input[3], 2, EmptyClock).update} :
      \A merged \in {MergeUpdates(u, v)} :
        /\ merged = MergeAll(<<u, v>>)
        /\ merged.ok =>
             /\ CompareUpdates(u, merged.update) = "Before"
             /\ CompareUpdates(v, merged.update) = "Before"
             /\ \A uv \in AfterBoth(input[1], u, v), vu \in AfterBoth(input[1], v, u),
                   once \in After(input[1], merged.update) : uv = once /\ vu = once

-----------------------------------------------------------------------------
(* schema.rs: a default operation and two annotations of columns.          *)

\* A table is fully conflict-free exactly when every set of columns, the ones
\* nobody annotated included, can be merged automatically; an annotated column
\* is counted on exactly one side.
AutoMergeNeedsEveryColumn ==
  Given("schema") =>
    LET s == AddColumn(AddColumn(NewSchema(input[1]), input[2][1], input[2][2]),
                       input[3][1], input[3][2])
    IN /\ IsFullyConflictFree(s) <=> \A cs \in SUBSET Columns : CanAutoMergeColumns(s, cs)
       /\ ConflictFreeColumns(s) = {c \in DOMAIN s.columns : CanAutoMergeColumns(s, {c})}
       /\ ConflictFreeColumns(s) \cup ConflictingColumns(s) = {input[2][1], input[3][1]}

-----------------------------------------------------------------------------
(* branch.rs: the fork point, the source and the target of a merge.  Heads  *)
(* only grow from the fork point: no operation takes a table off a branch.  *)

Since(base, h) == \A t \in DOMAIN base : t \in DOMAIN h /\ h[t] >= base[t]
Changed(base, h) == {t \in DOMAIN h : t \notin DOMAIN base \/ h[t] # base[t]}

\* A merge with fork point that reports no conflict keeps what either side
\* changed: each table is at the version of the side that changed it; and what
\* it reports as conflicts are the tables both sides changed differently.
MergeLosesNoChange ==
  Given("branches") /\ Since(input[1], input[2]) /\ Since(input[1], input[3]) =>
    LET base == input[1]
        src == input[2]
        tgt == input[3]
        diff == DiffWithBase(src, tgt, base)
        result == ApplyDiff(tgt, src, diff)
    IN /\ diff.modified = {t \in Changed(base, src) \cap Changed(base, tgt) : src[t] # tgt[t]}
       /\ CanAutoMerge(diff) =>
            /\ \A t \in Changed(base, src) : result[t] = src[t]
            /\ \A t \in Changed(base, tgt) : result[t] = tgt[t]
            /\ DOMAIN result = DOMAIN src \cup DOMAIN tgt

\* merge_fast_forward never regresses a version of the target, with a fork
\* point or without, and without one it never drops a newer one of the source.
MergeNeverRegresses ==
  Given("branches") =>
    LET src == input[2]
        tgt == input[3]
        diff == DiffWithBase(src, tgt, input[1])
        merged == ApplyDiff(tgt, src, diff)
        forward == ApplyForward(tgt, src)
    IN /\ Since(tgt, forward)
       /\ \A t \in DOMAIN src : src[t] > 0 => forward[t] >= src[t]
       /\ Since(input[1], src) /\ Since(input[1], tgt) => Since(tgt, merged)

\* The analyzer and the merge agree: no operation of a column of a table that
\* is called mergeable can end in a conflict of two values, save for overflow;
\* and a merge it allows leaves no table that both sides changed behind.
AnalyzerKnowsTheMerge ==
  Given("analysis") =>
    LET src == input[1]
        tgt == input[2]
        registry == input[3]
        diff == DiffWithBase(src, tgt, NoBase)
        analysis == Analyze(diff, registry)
        columns == AnalyzeColumns(diff, registry)
    IN /\ \A t \in analysis.autoMergeable :
            /\ \A c \in Columns, v \in {Integer(0), Boolean(TRUE), StringSet({})} :
                 Merge(RegistryOpType(registry, t, c), v, v) # Conflict
            /\ columns[t][2] = {}
       /\ CanMerge(analysis) =>
            DOMAIN src \cup DOMAIN tgt = TablesToMerge(analysis) \cup analysis.unchanged

\* Two branches never share a file, and list gives each its own name, if no
\* underscore of their names stands before a slash: validate_branch_name refuses
\* what else the encoding of slashes would confuse (branch/manager.rs:108, 283).
Touching(name) == HasText(name, <<"_", "/">>)
BranchFilesApart ==
  Given("names") /\ (\A i \in 1..2 : ValidBranchName(input[i]) /\ ~Touching(input[i])) =>
    /\ BranchPath(input[1]) = BranchPath(input[2]) => input[1] = input[2]
    /\ ListedName(BranchPath(input[1])) = input[1]

\* Branches stay apart, and come together without a loss.
BranchesSound ==
  /\ MergeLosesNoChange /\ MergeNeverRegresses
  /\ AutoMergeNeedsEveryColumn /\ AnalyzerKnowsTheMerge
  /\ BranchFilesApart

-----------------------------------------------------------------------------
(* conflict.rs: the writes of two transactions, their rows, the size of the *)
(* filters and their numbers of hashes.                                     *)

\* What a write may touch: only a write of partitions says what it leaves alone.
Touched(w) == {w.table} \X (IF w.granularity = "Partitions" THEN w.parts ELSE Parts)
TouchedBy(tx) == UNION {Touched(tx[i]) : i \in DOMAIN tx}

\* A write of the table that does not say which partitions it leaves alone.
WritesAll(tx, t) == \E i \in DOMAIN tx : tx[i].table = t /\ tx[i].granularity # "Partitions"

\* No detector finds two transactions compatible that may write a part of the
\* same table, and whether one finds a conflict does not depend on which of
\* the two came first, though the table the partition detector names does.
\* That table is one both write, and where both write nothing but partitions
\* of it, they share one; no finer detector names a table a coarser does not.
NoMissedConflict ==
  Given("writes") =>
    LET tx1 == input[1]
        tx2 == input[2]
        overlap == {part[1] : part \in TouchedBy(tx1) \cap TouchedBy(tx2)}
    IN /\ overlap # {} => PartitionLevel(tx1, tx2) # NoConflict /\ Adaptive(tx1, tx2) # NoConflict
       /\ PartitionLevel(tx1, tx2) = NoConflict <=> PartitionLevel(tx2, tx1) = NoConflict
       /\ Adaptive(tx1, tx2) = NoConflict <=> Adaptive(tx2, tx1) = NoConflict
       /\ \A t \in PartitionLevel(tx1, tx2) : t \in overlap \/ WritesAll(tx1, t) \/ WritesAll(tx2, t)
       /\ PartitionLevel(tx1, tx2) \subseteq Adaptive(tx1, tx2)
       /\ Adaptive(tx1, tx2) \subseteq TableLevel(tx1, tx2)

\* The write set of some rows, inserted one after the other.
WriteSet(rows, bits, hashes) ==
  LET row == SetToSeq(rows)
      ws[n \in 0..Cardinality(rows)] ==
        IF n = 0 THEN NewWriteSet(bits, hashes) ELSE InsertRow(ws[n - 1], row[n])
  IN ws[Cardinality(rows)]

\* The Bloom detector has no false negative: a row both write sets hold is
\* reported, even when their filters were made with other parameters.
BloomMissesNothing ==
  Given("rows") =>
    LET ws1 == WriteSet(input[1], input[3][1], input[3][2])
        ws2 == WriteSet(input[2], input[4][1], input[4][2])
    IN /\ \A row \in input[1] : MightContain(ws1, row)
       /\ {row[1] : row \in input[1] \cap input[2]} \subseteq DetectBloom(ws1, ws2)
       /\ DetectBloom(ws1, ws2) = DetectBloom(ws2, ws1)

\* The detectors are on the safe side.
ConflictsFound == NoMissedConflict /\ BloomMissesNothing

-----------------------------------------------------------------------------
(* merkle: two pieces of data, the size of chunks and the branching factor. *)

\* A store with the chunks of some data.
StoreOf(data, size) ==
  LET pieces == {Piece(data, size, i) : i \in 1..Ceiling(Len(data), size)}
  IN [h \in {HashData(p) : p \in pieces} |-> CHOOSE p \in pieces : HashData(p) = h]

\* A chunk of the data is nothing but the hashes that a node of the tree joins.
ChunkIsNode(data, size, tree) ==
  \E i \in 1..Ceiling(Len(data), size), l \in DOMAIN tree.nodes :
    \E j \in DOMAIN tree.nodes[l] : Piece(data, size, i) = tree.nodes[l][j].children

\* A tree verifies against the store it was built with and against no store
\* that lacks one of its chunks; two trees of the same parameters and height
\* have the same root exactly when they are of the same data, and trees of
\* other heights have the same root only where a chunk of one is what a node of
\* the other hashes: the root alone is not "the identity of this tree"
\* (types.rs:64).  And where no chunk comes twice, reused chunks and added ones
\* make up the new tree.
MerkleIdentifiesData ==
  Given("chunks") =>
    LET tree1 == BuildTree(input[1], input[3], input[4])
        tree2 == BuildTree(input[2], input[3], input[4])
        store1 == StoreOf(input[1], input[3])
    IN /\ VerifyTree(tree1, store1)
       /\ VerifyTree(tree2, store1) <=> DiffTrees(tree1, tree2).added = {}
       /\ Len(tree1.nodes) = Len(tree2.nodes) =>
            (tree1.root = tree2.root <=> input[1] = input[2])
       /\ tree1.root = tree2.root =>
            \/ input[1] = input[2]
            \/ ChunkIsNode(input[1], input[3], tree2)
            \/ ChunkIsNode(input[2], input[3], tree1)
       /\ IsInjective(Hashes(tree2.chunks)) =>
            LET diff == DiffTrees(tree1, tree2)
            IN diff.reuse[1] + Cardinality(diff.added) = diff.reuse[2]

\* The chunks that a range read fetches hold every byte of the range and none
\* of them is fetched for nothing; an offset lies in exactly one chunk.
RangeReadsSuffice ==
  Given("chunks") /\ input[1] = input[2] =>
    LET tree == BuildTree(input[1], input[3], input[4])
        Bytes(c) == c.start..(c.end - 1)
    IN \A start, end \in 0..tree.total : start < end =>
         LET read == {tree.chunks[i] : i \in ChunksInRange(tree, start, end)}
         IN /\ start..(end - 1) \subseteq UNION {Bytes(c) : c \in read}
            /\ \A c \in read : Bytes(c) \cap start..(end - 1) # {}
            /\ \E i \in DOMAIN tree.chunks : ChunkForOffset(tree, start) = {i}

\* Trees tell data apart and find their way to it.
MerkleSound == MerkleIdentifiesData /\ RangeReadsSuffice

-----------------------------------------------------------------------------
(* escrow.rs: a probability, an expected number of requests and the masses. *)

\* The quota of a node is what the doc says of poisson_inverse_cdf: the smallest
\* that the demand exceeds no more often than asked, provided that the masses
\* the search adds up reach the target (escrow.rs:646).
QuantileIsLeast ==
  Given("quantile") =>
    LET p == input[1]
        lambda == input[2]
        mass == input[3]
        Cdf(k) == PoissonCdf(k, lambda, mass)
        quantile == PoissonInverseCdf(p, lambda, mass)
    IN lambda > 0 /\ p \in 1..(Certain - 1) /\ Cdf(BoundFactor * lambda + BoundMargin) >= p =>
         Cdf(quantile) >= p /\ \A k \in -1..(quantile - 1) : Cdf(k) < p

-----------------------------------------------------------------------------
(* changelog: a list of committed transactions, in commit order, and a query. *)

Ids(entries) == [i \in DOMAIN entries |-> entries[i].txId]

\* A query returns entries of the whole history, word for word: filters and the
\* limit leave entries out, and an entry says the same of what a table was
\* before, whether its predecessors were asked for or not.
QueriesFilterHistory ==
  Given("changelog") =>
    LET log == input[1]
        q == input[2]
        Asked(e) == /\ MatchesEntry(q, e)
                    /\ \A x \in q.sinceTx : e.txId > x
                    /\ \A time \in q.sinceTime : e.committedAt >= time
        history == GetChangelog(log, Everything)
        all == At(history, {i \in DOMAIN history : Asked(history[i])})
    IN /\ GetChangelog(log, [q EXCEPT !.limit = {}]) = all
       /\ IF q.limit = {} THEN GetChangelog(log, q) = all
          ELSE \A n \in q.limit :
                 GetChangelog(log, q) = SubSeq(all, 1, IF n < Len(all) THEN n ELSE Len(all))

\* A reader that asks for a few entries at a time, from the last one it has
\* seen, gets the whole of a history whose identifiers ascend, each entry once.
PagesCoverHistory ==
  Given("changelog") =>
    LET log == input[1]
        q == input[2]
        Page(seen) ==
          GetChangelog(log, IF seen = <<>> THEN q ELSE [q EXCEPT !.sinceTx = {Last(seen).txId}])
        pages[k \in 0..Len(log)] ==
          IF k = 0 THEN <<>> ELSE pages[k - 1] \o Page(pages[k - 1])
    IN (\A i, j \in DOMAIN log : i < j => log[i].txId < log[j].txId) =>
         /\ pages[Len(log)] = GetChangelog(log, [q EXCEPT !.limit = {}])
         /\ \A x \in q.sinceTx :
              Ids(GetChangelog(log, [Everything EXCEPT !.sinceTx = {x}]))
                = Ids(ListCommittedSince(log, x))

\* Readers of the changelog, of all of it or of a part, see one history.
ChangelogSound == QueriesFilterHistory /\ PagesCoverHistory

-----------------------------------------------------------------------------
(* parquet: rows, the size of row groups and whether they have statistics,  *)
(* filters and columns.                                                     *)

\* Pruning by statistics drops no row that the filters select, nulls included,
\* as long as no NaN is about: a filtered read is the projection of the rows
\* that match all filters, in order, whatever columns are asked for.
PruningLosesNoRow ==
  Given("groups") =>
    LET rows == input[1]
        file == Encode(rows, input[2][1], input[2][2])
        filters == input[3]
        stats == PruningStats(file, filters)
    IN /\ FlattenSeq(DecodeBatch(EncodeBatch(<<rows, Reverse(rows)>>, input[2][1], input[2][2])))
            = rows \o Reverse(rows)
       /\ DecodeWithFilter(file, filters, input[4]) = Project(Selected(rows, filters), input[4])
       /\ stats[2] + stats[3] = stats[1]
       /\ stats[3] >= Cardinality({i \in DOMAIN file.groups : Selected(file.groups[i], filters) # <<>>})
=============================================================================
