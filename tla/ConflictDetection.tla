-------------------------- MODULE ConflictDetection --------------------------
(***************************************************************************)
(* rhizo_core/src/transaction/conflict.rs: the detectors of write-write    *)
(* conflicts.  A write is [table, granularity, parts]; a transaction the   *)
(* list of its writes; a conflict the set of the tables it reports.  A     *)
(* Bloom filter is the set of its bits; H1 and H2 are the two halves of    *)
(* the BLAKE3 hash of a row.                                               *)
(***************************************************************************)
EXTENDS Integers, FiniteSets

CONSTANTS H1, H2    \* <<table, row>> -> hash

NoConflict == {}

\* TableLevelConflictDetector: the tables both write.
TablesOf(tx) == {tx[i].table : i \in DOMAIN tx}
TableLevel(tx1, tx2) == TablesOf(tx1) \cap TablesOf(tx2)

\* Mutant: a write of a whole table meets nothing but its own.
PartitionsShared(w1, w2) ==
  w1.table = w2.table /\ (w1.granularity = w2.granularity \/ w1.parts \cap w2.parts # {})

\* PartitionLevelConflictDetector: two writes of partitions conflict on a
\* partition, any other pair on its table.  The first write of tx1 that meets
\* one of tx2 ends the search, and its table is all that is reported.
PartitionsMeet(w1, w2) ==
  /\ w1.table = w2.table
  /\ w1.granularity = "Partitions" /\ w2.granularity = "Partitions"
       => w1.parts \cap w2.parts # {}
Meeting(tx1, tx2) ==
  {i \in DOMAIN tx1 : \E j \in DOMAIN tx2 : PartitionsMeet(tx1[i], tx2[j])}
PartitionLevel(tx1, tx2) ==
  {tx1[i].table : i \in {m \in Meeting(tx1, tx2) : \A n \in Meeting(tx1, tx2) : m <= n}}

\* AdaptiveConflictDetector: one write of partitions decides for both.
WritesPartitions(tx) == \E i \in DOMAIN tx : tx[i].granularity = "Partitions"
Adaptive(tx1, tx2) ==
  IF WritesPartitions(tx1) \/ WritesPartitions(tx2)
  THEN PartitionLevel(tx1, tx2) ELSE TableLevel(tx1, tx2)

-----------------------------------------------------------------------------
(* BloomFilter and BloomWriteSet *)

\* with_params, and new whose parameters are clamped to 1..16 hashes.
NewFilter(bits, hashes) ==
  [bits |-> {}, size |-> bits, hashes |-> IF hashes > 16 THEN 16 ELSE hashes]

\* hash_indices: enhanced double hashing.
HashIndices(f, item) == {(H1[item] + i * H2[item] + i * i) % f.size : i \in 0..(f.hashes - 1)}

\* insert and contains
InsertItem(f, item) == [f EXCEPT !.bits = @ \cup HashIndices(f, item)]
ContainsItem(f, item) == HashIndices(f, item) \subseteq f.bits

\* maybe_intersects: filters of different sizes cannot be compared.
MaybeIntersects(f, g) == f.size # g.size \/ f.bits \cap g.bits # {}

\* BloomWriteSet::new, insert, might_contain and maybe_conflicts_with
NewWriteSet(bits, hashes) == [filter |-> NewFilter(bits, hashes), tables |-> {}]
InsertRow(ws, item) ==
  [filter |-> InsertItem(ws.filter, item), tables |-> ws.tables \cup {item[1]}]
MightContain(ws, item) == item[1] \in ws.tables /\ ContainsItem(ws.filter, item)
MaybeConflicts(ws1, ws2) ==
  ws1.tables \cap ws2.tables # {} /\ MaybeIntersects(ws1.filter, ws2.filter)

\* detect_bloom: the tables both sets have rows of.
DetectBloom(ws1, ws2) == IF MaybeConflicts(ws1, ws2) THEN ws1.tables \cap ws2.tables ELSE NoConflict
=============================================================================
