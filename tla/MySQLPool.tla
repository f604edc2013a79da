------------------------------- MODULE MySQLPool -------------------------------
(***************************************************************************)
(* The MySQL pool of mymuduo (a submodule), TransactionGuard and what the  *)
(* services rely on of InnoDB, modelled from their use.  A statement       *)
(* belongs to the transaction that is open on its connection, whoever      *)
(* opened it, and commits by itself when none is.  BEGIN commits what was  *)
(* open before.  A row that a transaction wrote is locked until its end.   *)
(* A TransactionGuard that was not committed sends ROLLBACK when it is     *)
(* destroyed, on the connection it copied when it was made.                *)
(***************************************************************************)
CONSTANT Conns

VARIABLES
  db,   \* the committed rows
  tx,   \* the transaction of a connection
  free  \* connections in the pool

Idle == [open |-> FALSE, snap |-> <<>>, writes |-> <<>>]

\* What a SELECT returns, and what an UPDATE finds: the first reads the
\* snapshot of the transaction, the second the committed row, and each the
\* transaction's own writes over it.
Over(w, d) == [r \in DOMAIN d |-> IF r \in DOMAIN w THEN w[r] ELSE d[r]]
Selected(c) == IF tx[c].open THEN Over(tx[c].writes, tx[c].snap) ELSE db
Current(c) == Over(tx[c].writes, db)

Unlocked(c, r) == \A d \in Conns \ {c} : r \notin DOMAIN tx[d].writes

Put(w, r, v) == [x \in DOMAIN w \cup {r} |-> IF x = r THEN v ELSE w[x]]

Write(c, r, v) ==
  IF tx[c].open
  THEN /\ tx' = [tx EXCEPT ![c].writes = Put(@, r, v)]
       /\ UNCHANGED db
  ELSE /\ db' = [db EXCEPT ![r] = v]
       /\ UNCHANGED tx

\* BEGIN, with the snapshot that the first SELECT after it takes.
Begin(c) ==
  /\ db' = Current(c)
  /\ tx' = [tx EXCEPT ![c] = [open |-> TRUE, snap |-> Current(c), writes |-> <<>>]]

Commit(c) ==
  /\ db' = Current(c)
  /\ tx' = [tx EXCEPT ![c] = Idle]

Rollback(c) ==
  /\ tx' = [tx EXCEPT ![c] = Idle]
  /\ UNCHANGED db
================================================================================
