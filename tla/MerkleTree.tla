------------------------------ MODULE MerkleTree ------------------------------
(***************************************************************************)
(* rhizo_core/src/merkle/tree.rs and types.rs: data cut into chunks of a   *)
(* fixed size under a tree of hashes.  Data is a sequence of bytes, among  *)
(* which there may be hashes: one stands for the characters it is written  *)
(* with.  The hash of a sequence is the sequence itself, marked as hashed: *)
(* BLAKE3 without collisions.  Joined hashes are hashed as data is, with   *)
(* nothing to tell a node from a leaf.  A branching factor below 2 is left *)
(* out: with 1 the loop of build_tree_from_leaves never ends, and          *)
(* chunks(0) panics.                                                       *)
(***************************************************************************)
EXTENDS Integers, Sequences, FiniteSets
LOCAL INSTANCE SequencesExt

HashData(d) == <<"hash", d>>
\* Mutant: the order of the children does not count.
HashNodeSet(hashes) == HashData(SetToSeq({hashes[i] : i \in DOMAIN hashes}))

HashNodes(hashes) == HashData(hashes)

Ceiling(n, d) == (n + d - 1) \div d

\* The i-th piece of a sequence cut into pieces of size n, as slice::chunks.
Piece(s, n, i) == SubSeq(s, (i - 1) * n + 1, IF i * n <= Len(s) THEN i * n ELSE Len(s))

\* DataChunk::new, with the byte range [start, end).
DataChunk(hash, start, end, index) ==
  [hash |-> hash, start |-> start, end |-> end, size |-> end - start, index |-> index]

SplitIntoChunks(data, size) ==
  [i \in 1..Ceiling(Len(data), size) |->
     LET piece == Piece(data, size, i)
     IN DataChunk(HashData(piece), (i - 1) * size, (i - 1) * size + Len(piece), i - 1)]

Hashes(chunks) == [i \in DOMAIN chunks |-> chunks[i].hash]

\* MerkleNode::new; the level is where the tree has it.
MerkleNode(hash, children, index) == [hash |-> hash, children |-> children, index |-> index]

\* build_tree_from_leaves: the level above some hashes.
ParentLevel(hashes, branching) ==
  [i \in 1..Ceiling(Len(hashes), branching) |->
     MerkleNode(HashNodes(Piece(hashes, branching, i)), Piece(hashes, branching, i), i - 1)]

\* The levels above the leaves, up to the root.  Each is shorter than the one
\* below it: as many levels as leaves are enough.
Levels(leaves, branching) ==
  LET level[i \in 0..Len(leaves)] ==
        IF i = 0 THEN leaves
        ELSE IF Len(level[i - 1]) <= 1 THEN level[i - 1]
             ELSE [j \in DOMAIN ParentLevel(level[i - 1], branching) |->
                     ParentLevel(level[i - 1], branching)[j].hash]
      height == CHOOSE h \in 0..Len(leaves) :
                  Len(level[h]) = 1 /\ \A i \in 0..(h - 1) : Len(level[i]) > 1
  IN [root |-> level[height][1],
      nodes |-> [i \in 1..height |-> ParentLevel(level[i - 1], branching)]]

\* build_tree, of data that is not empty.
BuildTree(data, size, branching) ==
  LET chunks == SplitIntoChunks(data, size)
      levels == Levels(Hashes(chunks), branching)
  IN [root |-> levels.root, chunks |-> chunks, nodes |-> levels.nodes, total |-> Len(data)]

\* verify_tree with a store of chunks by hash.  A level's children are taken
\* from the nodes; that they are the hashes of the level below is not tested.
HashOf(node) == HashNodes(node.children)
VerifyTree(tree, store) ==
  /\ \A i \in DOMAIN tree.chunks :
       LET h == tree.chunks[i].hash IN h \in DOMAIN store /\ HashData(store[h]) = h
  /\ \A l \in DOMAIN tree.nodes : \A i \in DOMAIN tree.nodes[l] :
       HashOf(tree.nodes[l][i]) = tree.nodes[l][i].hash
  /\ LET top == IF tree.nodes = <<>> THEN Hashes(tree.chunks)
                ELSE [i \in DOMAIN Last(tree.nodes) |-> Last(tree.nodes)[i].hash]
     IN top = <<tree.root>>

\* calculate_reuse_ratio, as a fraction: hashes that are unchanged, of chunks.
ReuseRatio(unchanged, chunks) ==
  IF chunks = 0 THEN <<1, 1>> ELSE <<Cardinality(unchanged), chunks>>

\* diff_trees
DiffTrees(old, new) ==
  LET o == ToSet(Hashes(old.chunks))
      n == ToSet(Hashes(new.chunks))
  IN [unchanged |-> o \cap n, removed |-> o \ n, added |-> n \ o,
      reuse |-> ReuseRatio(o \cap n, Len(new.chunks))]

\* chunks_in_range and chunk_for_offset
ChunksInRange(tree, start, end) ==
  {i \in DOMAIN tree.chunks : tree.chunks[i].start < end /\ tree.chunks[i].end > start}
ChunkForOffset(tree, offset) ==
  {i \in DOMAIN tree.chunks : offset >= tree.chunks[i].start /\ offset < tree.chunks[i].end}
=============================================================================
