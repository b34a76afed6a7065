--------------------------- MODULE AlgebraicSchema ---------------------------
(***************************************************************************)
(* rhizo_core/src/algebraic/schema.rs: which operation each column of a    *)
(* table merges with.  Descriptions are left out.                          *)
(***************************************************************************)
EXTENDS AlgebraicMerge

CONSTANTS Tables, Columns

\* default_identity: the identity an annotation gets, none for None.
DefaultIdentity(op) ==
  CASE op = "ADD" -> {Integer(0)}
    [] op = "MULTIPLY" -> {Integer(1)}
    [] op = "UNION" -> {StringSet({})}
    [] OTHER -> {}

\* ColumnAlgebraic::new
ColumnAlgebraic(op) == [op |-> op, identity |-> DefaultIdentity(op)]

\* TableAlgebraicSchema::new, and set_default on it.
NewSchema(default) == [columns |-> [c \in {} |-> ColumnAlgebraic(default)], default |-> default]

\* add_column
AddColumn(s, c, op) ==
  [s EXCEPT !.columns = [d \in DOMAIN @ \cup {c} |-> IF d = c THEN ColumnAlgebraic(op) ELSE @[d]]]

\* get_op_type of a schema
OpTypeOf(s, c) == IF c \in DOMAIN s.columns THEN s.columns[c].op ELSE s.default

IsFullyConflictFree(s) ==
  s.default \in ConflictFree /\ \A c \in DOMAIN s.columns : s.columns[c].op \in ConflictFree

ConflictFreeColumns(s) == {c \in DOMAIN s.columns : s.columns[c].op \in ConflictFree}
ConflictingColumns(s) == {c \in DOMAIN s.columns : s.columns[c].op \notin ConflictFree}

\* can_auto_merge of writes to some columns
CanAutoMergeColumns(s, cs) == \A c \in cs : OpTypeOf(s, c) \in ConflictFree

\* AlgebraicSchemaRegistry: register and get_op_type
RegisterSchema(registry, t, s) ==
  [u \in DOMAIN registry \cup {t} |-> IF u = t THEN s ELSE registry[u]]
RegistryOpType(registry, t, c) ==
  IF t \in DOMAIN registry THEN OpTypeOf(registry[t], c) ELSE "UNKNOWN"
=============================================================================
