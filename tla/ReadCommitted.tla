--------------------------- MODULE ReadCommitted ---------------------------
(***************************************************************************)
(* One row of a PostgreSQL table under READ COMMITTED, the isolation level *)
(* every DropRoom transaction runs at (db/session.py sets no other).       *)
(*                                                                         *)
(* A row keeps the version last committed, `saved`, and the newest         *)
(* version, `draft`, which differs from it only while a transaction `by`   *)
(* that wrote the row is open: that transaction holds the row lock until   *)
(* it commits or rolls back.  A plain SELECT never waits.  An UPDATE or a  *)
(* DELETE waits for the lock and evaluates its WHERE on the newest         *)
(* version; a row whose committed version does not match is skipped        *)
(* without waiting.                                                        *)
(***************************************************************************)
CONSTANT NoTx          \* the `by` of a row nobody has locked

\* The set of rows that hold Values and that the transactions Txs write.
Row(Values, Txs) == [saved : Values, draft : Values, by : Txs \cup {NoTx}]

\* A row without an open write.
Clean(v) == [saved |-> v, draft |-> v, by |-> NoTx]

\* What a SELECT of transaction t returns: its own write or what is committed.
Sees(row, t) == IF row.by = t THEN row.draft ELSE row.saved

\* Whether t can take the row lock now, or has it.
Lockable(row, t) == row.by \in {NoTx, t}

\* The row after transaction t, which locks it, writes v.
Write(row, t, v) == [saved |-> row.saved, draft |-> v, by |-> t]

\* The row after t commits, and after t rolls back.
Commit(row, t) == IF row.by = t THEN Clean(row.draft) ELSE row
Rollback(row, t) == IF row.by = t THEN Clean(row.saved) ELSE row

-----------------------------------------------------------------------------
\* A commit and a rollback leave a well-typed row, without the transaction's
\* lock.
LEMMA RowEnds ==
    ASSUME NEW Values, NEW Txs, NEW row \in Row(Values, Txs), NEW t
    PROVE  /\ Commit(row, t) \in Row(Values, Txs)
           /\ Rollback(row, t) \in Row(Values, Txs)
  BY DEF Row, Commit, Rollback, Clean

\* So does a write of a value of the row's type.
LEMMA RowWrites ==
    ASSUME NEW Values, NEW Txs, NEW row \in Row(Values, Txs), NEW t \in Txs,
           NEW v \in Values
    PROVE  Write(row, t, v) \in Row(Values, Txs)
  BY DEF Row, Write
=============================================================================
