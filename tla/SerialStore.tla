----------------------------- MODULE SerialStore -----------------------------
(***************************************************************************)
(* What the transaction manager promises to the transactions it commits:   *)
(* they take effect one at a time, each one whole, and each one had read   *)
(* exactly the state left by those before it on its line of history.  A    *)
(* line is a branch when branches are in use, the catalog otherwise.       *)
(***************************************************************************)
EXTENDS Naturals, Sequences

CONSTANTS
  Tables,   \* the tables
  Lines,    \* the independent lines of history
  MaxTx     \* bound: transaction identifiers are 1..MaxTx

VARIABLE history   \* the committed transactions, in commit order

NoWriter == 0      \* the writer of a version no transaction wrote

\* The positions in h of the transactions that wrote t on line l.
Writers(h, l, t) == {i \in DOMAIN h : h[i].line = l /\ t \in h[i].writes}

LastWriter(h, l, t) ==
  LET W == Writers(h, l, t)
  IN  IF W = {} THEN NoWriter
      ELSE h[CHOOSE i \in W : \A j \in W : j <= i].id

SerialInit == history = << >>

\* A transaction commits in one step: what it reads is what the transactions
\* before it left.
SerialCommit(x, l, R, W) ==
  /\ \A i \in DOMAIN history : history[i].id # x
  /\ history' = Append(history,
                       [id     |-> x,
                        line   |-> l,
                        reads  |-> [t \in R |-> LastWriter(history, l, t)],
                        writes |-> W])

SerialNext ==
  \E x \in 1..MaxTx, l \in Lines, R \in SUBSET Tables, W \in SUBSET Tables :
    SerialCommit(x, l, R, W)

SerialSpec == SerialInit /\ [][SerialNext]_history
=============================================================================
