--------------------------- MODULE ChangelogQuery ---------------------------
(***************************************************************************)
(* rhizo_core/src/changelog and get_changelog of transaction/manager.rs:   *)
(* what a query makes of the list of committed transactions.  A            *)
(* transaction maps the tables it wrote to their new versions; each field  *)
(* of a query is a set of at most one value.  Chunk hashes and metadata    *)
(* are copied along and left out.                                          *)
(***************************************************************************)
EXTENDS Integers, Sequences
LOCAL INSTANCE SequencesExt

\* The elements of a list at some places, in order.
At(list, places) ==
  FlattenSeq([i \in DOMAIN list |-> IF i \in places THEN <<list[i]>> ELSE <<>>])

\* ChangelogQuery::new, matches everything.
Everything == [sinceTx |-> {}, sinceTime |-> {}, tables |-> {}, branch |-> {}, limit |-> {}]

\* TableChange::new; the old version 0 stands for a new table.
TableChange(old, new) == [old |-> old, new |-> new]

\* ChangelogEntry::from_transaction
FromTransaction(tx, previous) ==
  [txId |-> tx.txId, committedAt |-> tx.committedAt, branch |-> tx.branch,
   changes |-> [t \in DOMAIN tx.writes |->
     TableChange(IF t \in DOMAIN previous THEN previous[t] ELSE 0, tx.writes[t])]]

ContainsTable(entry, t) == t \in DOMAIN entry.changes
IsNewTable(change) == change.old = 0

\* matches_entry: of the filters, branch and tables only.
MatchesEntry(q, entry) ==
  /\ \A b \in q.branch : entry.branch = b
  /\ \A ts \in q.tables : \E t \in ts : ContainsTable(entry, t)

\* Mutant: the identifier to start from is included.
SkippedBefore(tx, q) ==
  \/ \E x \in q.sinceTx : tx.txId < x
  \/ \E time \in q.sinceTime : tx.committedAt < time
  \/ \E b \in q.branch : tx.branch # b

\* The transactions get_changelog skips by identifier, time or branch.
Skipped(tx, q) ==
  \/ \E x \in q.sinceTx : tx.txId <= x
  \/ \E time \in q.sinceTime : tx.committedAt < time
  \/ \E b \in q.branch : tx.branch # b

TrackVersions(previous, tx) ==
  [t \in DOMAIN previous \cup DOMAIN tx.writes |->
     IF t \in DOMAIN tx.writes THEN tx.writes[t] ELSE previous[t]]

Included(tx, q) == ~Skipped(tx, q) /\ \A ts \in q.tables : ts \cap DOMAIN tx.writes # {}

\* One turn of the loop of get_changelog, which ends at the limit.
Visit(found, tx, q) ==
  IF found.full THEN found
  ELSE LET entry == FromTransaction(tx, found.previous)
           entries == IF Included(tx, q) THEN Append(found.entries, entry) ELSE found.entries
       IN [entries |-> entries,
           previous |-> TrackVersions(found.previous, tx),
           full |-> Included(tx, q) /\ \E n \in q.limit : Len(entries) >= n]

Unvisited == [entries |-> <<>>, previous |-> [t \in {} |-> 0], full |-> FALSE]

GetChangelog(log, q) ==
  LET visited[i \in 0..Len(log)] ==
        IF i = 0 THEN Unvisited ELSE Visit(visited[i - 1], log[i], q)
  IN visited[Len(log)].entries

\* list_committed_since of the log
ListCommittedSince(log, since) == At(log, {i \in DOMAIN log : log[i].txId > since})
=============================================================================
