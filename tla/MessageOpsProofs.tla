--------------------------- MODULE MessageOpsProofs ---------------------------
(***************************************************************************)
(* For any messages, requests, instances and pools: what edits, recalls,   *)
(* saves, reactions and acks leave in MySQL and on the screens, whichever  *)
(* statements fail and whoever shares a connection with a guard that has   *)
(* not rolled back yet.                                                    *)
(***************************************************************************)
EXTENDS MessageOps, TLAPS, FiniteSetTheorems

Writes(c) == DOMAIN tx[c].writes
Wrote(c, r) == tx[c].writes[r]

Working == {"open", "read", "updated", "spoiled", "logged"}

\* The types of what is neither a row nor a transaction.
Plain ==
  /\ free \subseteq Conns
  /\ pc \in [Requests -> {"new", "again", "open", "read", "updated", "spoiled", "logged",
                          "unwound", "saved", "done", "failed"}]
  /\ kind \in [Edits -> {"private", "group"}]
  /\ conn \in [Requests -> Conns \cup {None}]
  /\ DOMAIN read = Edits \cup Toggles
  /\ told \in [Msgs -> Nat]
  /\ screen \in [Msgs -> [body : Bodies, recalled : BOOLEAN]]
  /\ age \in 0..2 /\ faults \in 0..MaxFaults
  /\ shared \subseteq Requests /\ doubt \subseteq Requests
  /\ unpushed \subseteq Msgs /\ raced \subseteq Msgs

Idling == {"new", "done", "failed"}

\* How far a request of each kind can be.  An instance handles one edit at a time, and
\* a toggle is in doubt when it has failed.
Stages ==
  /\ \A e \in Edits : pc[e] \notin {"open", "spoiled"}
  /\ \A e, d \in Edits : e # d /\ At(e) = At(d) => pc[e] \in Idling \/ pc[d] \in Idling
  /\ \A q \in Recalls : pc[q] \in {"new", "saved", "done", "failed"}
  /\ \A s \in Saves : pc[s] \in {"new", "open", "updated", "spoiled", "logged", "unwound",
                               "done", "failed"}
  /\ \A t \in Toggles : pc[t] \in {"new", "read", "done", "failed"}
  /\ \A t \in Toggles : t \in doubt => pc[t] = "failed"
  /\ \A a \in Acks : pc[a] \in {"new", "updated", "done", "failed"}

\* A connection that a request works on is not in the pool; two requests have the
\* same one only if one of them is a guard that has yet to roll back, and both are
\* known to share it.
Connections ==
  /\ \A q \in Requests : conn[q] # None <=> pc[q] \in Working \cup {"unwound"}
  /\ \A q \in Requests : pc[q] \in Working => conn[q] \notin free
  /\ \A p, q \in Requests :
       p # q /\ conn[p] = conn[q] /\ conn[p] # None =>
         p \in shared /\ "unwound" \in {pc[p], pc[q]}

\* A transaction is open only where an edit or a save has the connection.
Transactions == \A c \in Conns : tx[c].open => \E q \in Edits \cup Saves : conn[q] = c

\* The shape of the database and of the transactions.
Store ==
  /\ DOMAIN db = Rows
  /\ DOMAIN tx = Conns
  /\ \A c \in Conns : /\ DOMAIN tx[c] = {"open", "snap", "writes"}
                      /\ tx[c].open \in BOOLEAN
                      /\ Writes(c) \subseteq Rows
                      /\ ~tx[c].open => Writes(c) = {}

\* Two transactions do not write the same message.
Locks ==
  \A c, d \in Conns, m \in Msgs : Row(m) \in Writes(c) /\ Row(m) \in Writes(d) => c = d

\* A row of a message, with original_body as it should be, and a private one delivered
\* at most once.
Good(m, row) ==
  /\ row \in MessageRows
  /\ row.original = IF row.body = First THEN None ELSE First
  /\ m \in Private => row.delivered <= 1

GoodRows ==
  /\ \A m \in Msgs : Good(m, db[Row(m)])
  /\ \A c \in Conns, m \in Msgs : Row(m) \in Writes(c) => Good(m, Wrote(c, Row(m)))

\* What a SELECT in a transaction finds is a row of a message too.
Snapped ==
  \A c \in Conns, m \in Msgs :
    tx[c].open => DOMAIN tx[c].snap = Rows /\ tx[c].snap[Row(m)] \in MessageRows

\* What a commit would do to a message: a recalled one stays as it is, and an
\* edited one stays edited.
Succeeds(new, old) ==
  /\ old.recalled => new.recalled /\ new.body = old.body
  /\ old.body # First => new.body # First

Keeps ==
  \A c \in Conns, m \in Msgs : Row(m) \in Writes(c) => Succeeds(Wrote(c, Row(m)), db[Row(m)])

\* The other rows; nothing but a body, or TRUE, is ever written to one that is
\* inserted.
OtherRows ==
  /\ \A m \in Msgs : db[Reaction(m)] \in BOOLEAN
  /\ \A e \in Edits : db[EditRow(e)] \in Bodies \cup {None}
  /\ \A s \in Saves : db[SaveRow(s)] \in BOOLEAN /\ db[OutboxRow(s)] \in BOOLEAN

OtherWrites ==
  \A c \in Conns :
    /\ \A m \in Msgs : Reaction(m) \in Writes(c) => Wrote(c, Reaction(m)) \in BOOLEAN
    /\ \A e \in Edits : EditRow(e) \in Writes(c) => Wrote(c, EditRow(e)) \in Bodies
    /\ \A s \in Saves : /\ SaveRow(s) \in Writes(c) => Wrote(c, SaveRow(s)) = TRUE
                        /\ OutboxRow(s) \in Writes(c) => Wrote(c, OutboxRow(s)) = TRUE

Lawful == Locks /\ GoodRows /\ Snapped /\ Keeps /\ OtherRows /\ OtherWrites

\* What the SELECT of an edit returned; if it found the message edited, then the
\* UPDATE will find it edited too.
Remembered ==
  \A e \in Edits :
    /\ pc[e] \in {"read", "updated", "logged"} => read[e].old \in Bodies
    /\ pc[e] = "read" =>
         /\ read[e].original = None => read[e].old = First
         /\ read[e].original # None => db[Row(On(e))].body # First

\* An edit that shares its connection with nobody has its transaction, with the
\* rows it has written so far, and nobody else has its row in message_edits.
EditOwns(e) ==
  /\ pc[e] \in Working => tx[conn[e]].open
  /\ pc[e] \in {"updated", "logged"} =>
       Row(On(e)) \in Writes(conn[e]) /\ Wrote(conn[e], Row(On(e))).body = e
  /\ pc[e] = "logged" => EditRow(e) \in Writes(conn[e])
  /\ \A c \in Conns : EditRow(e) \in Writes(c) => conn[e] = c
  /\ db[EditRow(e)] # None <=> Answered(e) \/ e \in doubt

EditsOwn == \A e \in Edits \ shared : EditOwns(e)

\* The same of a save and its two rows.
SaveOwns(s) ==
  /\ pc[s] \in Working => tx[conn[s]].open
  /\ pc[s] \in {"updated", "logged"} => SaveRow(s) \in Writes(conn[s])
  /\ pc[s] = "logged" => OutboxRow(s) \in Writes(conn[s])
  /\ \A c \in Conns : SaveRow(s) \in Writes(c) \/ OutboxRow(s) \in Writes(c) => conn[s] = c
  /\ db[SaveRow(s)] <=> pc[s] = "done" \/ s \in doubt
  /\ db[OutboxRow(s)] <=> pc[s] = "done" \/ s \in doubt

SavesOwn == \A s \in Saves \ shared : SaveOwns(s)

\* Where the body of a message comes from: an edit of it, that is in message_edits or
\* has shared a connection, or that is in the same transaction.
Vouched(e, m) == On(e) = m /\ (e \in shared \/ db[EditRow(e)] # None)

Bodied ==
  \A m \in Msgs, e \in Edits :
    /\ db[Row(m)].body = e => Vouched(e, m)
    /\ \A c \in Conns : Row(m) \in Writes(c) /\ Wrote(c, Row(m)).body = e =>
         Vouched(e, m) \/ (On(e) = m /\ conn[e] = c)

\* As long as no connection was shared, what is written and not committed is one
\* body, by the edit that has the connection.
AloneAt(c, m) ==
  /\ Reaction(m) \notin Writes(c)
  /\ Row(m) \in Writes(c) =>
       LET row == Wrote(c, Row(m)) IN
       /\ row.body \in Edits /\ conn[row.body] = c /\ On(row.body) = m
       /\ row.recalled = db[Row(m)].recalled /\ row.delivered = db[Row(m)].delivered

Alone == shared = {} => \A c \in Conns, m \in Msgs : AloneAt(c, m)

\* Recalls and deliveries that were reported.  Between its UPDATE and its push an ack
\* has counted a delivery of which the sender is not told yet.
AllHeard(m) ==
  \A a \in Acks : On(a) = m /\ pc[a] # "new" => pc[a] # "updated" /\ Heard(a)

Counted(m) ==
  /\ told[m] <= db[Row(m)].delivered
  /\ \A a \in Acks : On(a) = m /\ pc[a] = "updated" => db[Row(m)].delivered > 0
  /\ AllHeard(m) => told[m] = db[Row(m)].delivered

Reported ==
  /\ \A q \in Recalls \ shared : Answered(q) => db[Row(On(q))].recalled
  /\ shared = {} => \A m \in Msgs : Counted(m)

\* What the screen of a recipient lacks is on its way, or comes from another instance
\* and will not arrive.
Shown(m) ==
  /\ m \in ToFriend =>
       /\ screen[m].recalled => db[Row(m)].recalled
       /\ db[Row(m)].recalled /\ ~screen[m].recalled =>
            \E q \in Recalls : On(q) = m /\ pc[q] = "saved"
  /\ (\A e \in Edits : On(e) = m /\ pc[e] = "saved" => At(e) = Seat(m)) =>
       /\ \A e \in Edits : On(e) = m /\ pc[e] = "saved" => db[Row(m)].body = e
       /\ (\A e \in Edits : On(e) = m => pc[e] # "saved") => screen[m].body = db[Row(m)].body

Screens == shared = {} => \A m \in Msgs \ unpushed : Shown(m)

\* A reaction is what the clicks before made of it, and what a toggle under way
\* has read.
Clicks(m) == {t \in Toggles : On(t) = m /\ (pc[t] = "done" \/ t \in doubt)}

Toggled ==
  shared = {} => \A m \in Msgs \ raced :
    /\ db[Reaction(m)] = (Cardinality(Clicks(m)) % 2 = 1)
    /\ \A t \in Toggles : On(t) = m /\ pc[t] = "read" => read[t] = db[Reaction(m)]

Inv == /\ Store /\ Lawful /\ Plain /\ Stages /\ Connections /\ Transactions /\ Remembered
       /\ EditsOwn /\ SavesOwn /\ Bodied /\ Alone /\ Reported /\ Screens /\ Toggled

-------------------------------------------------------------------------------
(* The rows, and what the operations of the pool do to them.               *)

\* Every row of the model is a row of the database.
LEMMA RowsIn ==
  /\ \A m \in Msgs : Row(m) \in Rows /\ Reaction(m) \in Rows
  /\ \A e \in Edits : EditRow(e) \in Rows
  /\ \A s \in Saves : SaveRow(s) \in Rows /\ OutboxRow(s) \in Rows
  BY DEF Rows, Row, Reaction, EditRow, SaveRow, OutboxRow

\* Rows of different tables and of different messages are different.
LEMMA RowsApart ==
  /\ \A m, n : Row(m) = Row(n) => m = n
  /\ \A m, n : Reaction(m) = Reaction(n) => m = n
  /\ \A m, n : EditRow(m) = EditRow(n) => m = n
  /\ \A m, n : SaveRow(m) = SaveRow(n) => m = n
  /\ \A m, n : OutboxRow(m) = OutboxRow(n) => m = n
  /\ \A m, n : Row(m) # Reaction(n) /\ Row(m) # EditRow(n) /\ Row(m) # SaveRow(n)
               /\ Row(m) # OutboxRow(n)
  /\ \A m, n : Reaction(m) # EditRow(n) /\ Reaction(m) # SaveRow(n) /\ Reaction(m) # OutboxRow(n)
  /\ \A m, n : EditRow(m) # SaveRow(n) /\ EditRow(m) # OutboxRow(n)
  /\ \A m, n : SaveRow(m) # OutboxRow(n)
  BY DEF Row, Reaction, EditRow, SaveRow, OutboxRow

\* What a connection would commit.
Cur(c, r) == IF r \in Writes(c) THEN Wrote(c, r) ELSE db[r]

\* A transaction of c has one more write, or one more row is committed.
Kept(c, r, v) ==
  /\ tx[c].open /\ tx'[c].open /\ tx'[c].snap = tx[c].snap
  /\ \A d \in Conns \ {c} : tx'[d] = tx[d]
  /\ Writes(c)' = Writes(c) \cup {r}
  /\ Wrote(c, r)' = v
  /\ \A x \in Writes(c) : x # r => Wrote(c, x)' = Wrote(c, x)
  /\ db' = db

Stored(c, r, v) ==
  /\ ~tx[c].open /\ tx' = tx
  /\ db'[r] = v
  /\ \A x \in Rows : x # r => db'[x] = db[x]

\* The transaction of c ends: its writes are in the database, or gone.
Ended(c) ==
  /\ \A d \in Conns \ {c} : tx'[d] = tx[d]
  /\ Writes(c)' = {}
  /\ tx'[c].open => DOMAIN tx'[c].snap = Rows /\ \A x \in Rows : tx'[c].snap[x] = Cur(c, x)

Flushed(c) == Ended(c) /\ \A x \in Rows : db'[x] = Cur(c, x)
Discarded(c) == Ended(c) /\ ~tx'[c].open /\ db' = db

\* A statement is kept in the transaction or stored.
LEMMA WriteDoes ==
  ASSUME Store, NEW c \in Conns, NEW r \in Rows, NEW v, Write(c, r, v)
  PROVE  Store' /\ (Kept(c, r, v) \/ Stored(c, r, v))
  <1>1. CASE tx[c].open
    <2>1. /\ tx' = [tx EXCEPT ![c] = [tx[c] EXCEPT !.writes = Put(tx[c].writes, r, v)]]
          /\ db' = db
      BY <1>1 DEF Write
    <2>2. \A d \in Conns \ {c} : tx'[d] = tx[d]
      BY <2>1 DEF Store
    <2>3. tx'[c] = [tx[c] EXCEPT !.writes = Put(tx[c].writes, r, v)]
      BY <2>1 DEF Store
    <2>4. /\ DOMAIN tx'[c] = {"open", "snap", "writes"}
          /\ tx'[c].open = tx[c].open /\ tx'[c].snap = tx[c].snap
          /\ tx'[c].writes = Put(tx[c].writes, r, v)
      BY <2>3 DEF Store
    <2>5. /\ Writes(c)' = Writes(c) \cup {r}
          /\ Wrote(c, r)' = v
          /\ \A x \in Writes(c) : x # r => Wrote(c, x)' = Wrote(c, x)
      BY <2>4 DEF Put, Writes, Wrote
    <2>6. Store'
      BY <1>1, <2>1, <2>2, <2>4, <2>5 DEF Store, Writes
    <2> QED
      BY <1>1, <2>1, <2>2, <2>4, <2>5, <2>6 DEF Kept
  <1>2. CASE ~tx[c].open
    <2>1. tx' = tx /\ db' = [db EXCEPT ![r] = v]
      BY <1>2 DEF Write
    <2>2. Store'
      BY <2>1 DEF Store, Writes
    <2> QED
      BY <1>2, <2>1, <2>2 DEF Store, Stored
  <1> QED
    BY <1>1, <1>2

\* What a connection would commit, by row.
LEMMA CurrentIs ==
  ASSUME Store, NEW c \in Conns
  PROVE  DOMAIN Current(c) = Rows /\ \A x \in Rows : Current(c)[x] = Cur(c, x)
  BY DEF Store, Current, Over, Cur, Writes, Wrote

\* BEGIN commits what was open.
LEMMA BeginDoes ==
  ASSUME Store, NEW c \in Conns, Begin(c)
  PROVE  Store' /\ Flushed(c) /\ tx'[c].open
  <1>1. /\ tx' = [tx EXCEPT ![c] = [open |-> TRUE, snap |-> Current(c), writes |-> <<>>]]
        /\ db' = Current(c)
    BY DEF Begin
  <1>2. tx'[c] = [open |-> TRUE, snap |-> Current(c), writes |-> <<>>]
    BY <1>1 DEF Store
  <1>3. \A d \in Conns \ {c} : tx'[d] = tx[d]
    BY <1>1 DEF Store
  <1>4. DOMAIN tx'[c] = {"open", "snap", "writes"} /\ tx'[c].open /\ tx'[c].snap = Current(c)
    BY <1>2
  <1>5. Writes(c)' = {}
    BY <1>2 DEF Writes
  <1>6. Store'
    BY <1>1, <1>3, <1>4, <1>5, CurrentIs DEF Store, Writes
  <1> QED
    BY <1>1, <1>3, <1>4, <1>5, <1>6, CurrentIs DEF Flushed, Ended

\* COMMIT.
LEMMA CommitDoes ==
  ASSUME Store, NEW c \in Conns, Commit(c)
  PROVE  Store' /\ Flushed(c) /\ ~tx'[c].open
  <1>1. /\ tx' = [tx EXCEPT ![c] = Idle]
        /\ db' = Current(c)
    BY DEF Commit
  <1>2. tx'[c] = [open |-> FALSE, snap |-> <<>>, writes |-> <<>>]
    BY <1>1 DEF Store, Idle
  <1>3. \A d \in Conns \ {c} : tx'[d] = tx[d]
    BY <1>1 DEF Store
  <1>4. DOMAIN tx'[c] = {"open", "snap", "writes"} /\ tx'[c].open = FALSE
    BY <1>2
  <1>5. Writes(c)' = {}
    BY <1>2 DEF Writes
  <1>6. Store'
    BY <1>1, <1>3, <1>4, <1>5, CurrentIs DEF Store, Writes
  <1> QED
    BY <1>1, <1>3, <1>4, <1>5, <1>6, CurrentIs DEF Flushed, Ended

\* ROLLBACK.
LEMMA RollbackDoes ==
  ASSUME Store, NEW c \in Conns, Rollback(c)
  PROVE  Store' /\ Discarded(c)
  <1>1. /\ tx' = [tx EXCEPT ![c] = Idle]
        /\ db' = db
    BY DEF Rollback
  <1>2. tx'[c] = [open |-> FALSE, snap |-> <<>>, writes |-> <<>>]
    BY <1>1 DEF Store, Idle
  <1>3. \A d \in Conns \ {c} : tx'[d] = tx[d]
    BY <1>1 DEF Store
  <1>4. DOMAIN tx'[c] = {"open", "snap", "writes"} /\ tx'[c].open = FALSE
    BY <1>2
  <1>5. Writes(c)' = {}
    BY <1>2 DEF Writes
  <1>6. Store'
    BY <1>1, <1>3, <1>4, <1>5 DEF Store, Writes
  <1> QED
    BY <1>1, <1>3, <1>4, <1>5, <1>6 DEF Discarded, Ended

-------------------------------------------------------------------------------
(* What the operations of the pool leave lawful.                           *)

\* A recall and an edit are not undone by two writes if by neither.
LEMMA SucceedsTwice ==
  ASSUME NEW x, NEW y, NEW z, Succeeds(x, y), Succeeds(y, z)
  PROVE  Succeeds(x, z)
  BY DEF Succeeds

\* What a step makes of the committed messages.
Onward == \A m \in Msgs : Succeeds(db'[Row(m)], db[Row(m)])

\* Nothing written, nothing changed.
LEMMA LawfulStill ==
  ASSUME Store, Lawful, UNCHANGED <<db, tx>>
  PROVE  Store' /\ Lawful' /\ Onward
  <1>1. Store' /\ Lawful'
    BY DEF Store, Lawful, Locks, GoodRows, Snapped, Keeps, OtherRows, OtherWrites, Writes, Wrote
  <1> QED
    BY <1>1 DEF Onward, Succeeds

\* A write to an unlocked message that leaves a recalled one alone.
LEMMA LawfulRow ==
  ASSUME Store, Lawful, NEW c \in Conns, NEW m \in Msgs, NEW v,
         Write(c, Row(m), v), Unlocked(c, Row(m)), Good(m, v), Succeeds(v, Cur(c, Row(m)))
  PROVE  Lawful' /\ Onward
  <1>1. Row(m) \in Rows
    BY RowsIn
  <1>2. \A d \in Conns \ {c} : Row(m) \notin Writes(d)
    BY DEF Unlocked, Writes
  <1>3. Succeeds(v, db[Row(m)])
    BY SucceedsTwice DEF Cur, Lawful, Keeps
  <1>4. ASSUME Kept(c, Row(m), v) PROVE Lawful'
    <2>1. /\ db' = db
          /\ \A d \in Conns : Writes(d)' = IF d = c THEN Writes(c) \cup {Row(m)} ELSE Writes(d)
          /\ \A d \in Conns, x \in Rows : x \in Writes(d) /\ (d # c \/ x # Row(m)) =>
               Wrote(d, x)' = Wrote(d, x)
          /\ Wrote(c, Row(m))' = v
      BY <1>4 DEF Kept, Writes, Wrote
    <2>2. Locks'
      BY <1>2, <2>1, RowsApart DEF Lawful, Locks
    <2>3. GoodRows'
      BY <2>1, RowsIn, RowsApart DEF Lawful, GoodRows
    <2>4. Keeps'
      BY <1>3, <2>1, RowsIn, RowsApart DEF Lawful, Keeps
    <2>5. OtherRows'
      BY <2>1 DEF Lawful, OtherRows
    <2>6. OtherWrites'
      <3>1. \A x \in Rows : x # Row(m) => \A d \in Conns :
              x \in Writes(d)' => x \in Writes(d) /\ Wrote(d, x)' = Wrote(d, x)
        BY <2>1
      <3>2. \A n \in Msgs : Reaction(n) \in Rows /\ Reaction(n) # Row(m)
        BY RowsIn, RowsApart
      <3>3. \A e \in Edits : EditRow(e) \in Rows /\ EditRow(e) # Row(m)
        BY RowsIn, RowsApart
      <3>4. \A s \in Saves : /\ SaveRow(s) \in Rows /\ SaveRow(s) # Row(m)
                            /\ OutboxRow(s) \in Rows /\ OutboxRow(s) # Row(m)
        BY RowsIn, RowsApart
      <3> QED
        BY <3>1, <3>2, <3>3, <3>4 DEF Lawful, OtherWrites
    <2>7. Snapped'
      BY <1>4 DEF Lawful, Snapped, Kept
    <2> QED
      BY <2>2, <2>3, <2>4, <2>5, <2>6, <2>7 DEF Lawful
  <1>5. ASSUME Stored(c, Row(m), v) PROVE Lawful'
    <2>1. /\ \A d \in Conns : Writes(d)' = Writes(d)
          /\ \A d \in Conns, x \in Rows : Wrote(d, x)' = Wrote(d, x)
          /\ db'[Row(m)] = v
          /\ \A x \in Rows : x # Row(m) => db'[x] = db[x]
      BY <1>5 DEF Stored, Writes, Wrote
    <2>2. \A d \in Conns : Row(m) \notin Writes(d)
      BY <1>2, <1>5 DEF Stored, Store
    <2>3. Locks'
      BY <2>1 DEF Lawful, Locks
    <2>4. GoodRows'
      BY <2>1, RowsIn, RowsApart DEF Lawful, GoodRows
    <2>5. Keeps'
      BY <2>1, <2>2, RowsIn, RowsApart DEF Lawful, Keeps
    <2>6. OtherRows'
      BY <2>1, RowsIn, RowsApart DEF Lawful, OtherRows
    <2>7. OtherWrites'
      <3>1. ASSUME NEW d \in Conns, NEW x \in Rows
            PROVE  (x \in Writes(d)' <=> x \in Writes(d)) /\ Wrote(d, x)' = Wrote(d, x)
        BY <2>1
      <3> QED
        BY <3>1, RowsIn DEF Lawful, OtherWrites
    <2>8. Snapped'
      BY <1>5 DEF Lawful, Snapped, Stored
    <2> QED
      BY <2>3, <2>4, <2>5, <2>6, <2>7, <2>8 DEF Lawful
  <1>6. Onward
    BY <1>1, <1>3, RowsIn, RowsApart, WriteDoes DEF Kept, Stored, Onward, Succeeds
  <1> QED
    BY <1>1, <1>4, <1>5, <1>6, WriteDoes

\* A write to a row of another table.
Proper(r, v) ==
  /\ \A m \in Msgs : r # Row(m)
  /\ \A m \in Msgs : r = Reaction(m) => v \in BOOLEAN
  /\ \A e \in Edits : r = EditRow(e) => v \in Bodies
  /\ \A s \in Saves : r = SaveRow(s) \/ r = OutboxRow(s) => v = TRUE

\* It leaves the messages alone.
LEMMA LawfulOther ==
  ASSUME Store, Lawful, NEW c \in Conns, NEW r \in Rows, NEW v, Write(c, r, v), Proper(r, v)
  PROVE  Lawful' /\ Onward
  <1>1. ASSUME Kept(c, r, v) PROVE Lawful'
    <2>1. /\ db' = db
          /\ \A d \in Conns : Writes(d)' = IF d = c THEN Writes(c) \cup {r} ELSE Writes(d)
          /\ \A d \in Conns, x \in Rows : x \in Writes(d) /\ (d # c \/ x # r) =>
               Wrote(d, x)' = Wrote(d, x)
          /\ Wrote(c, r)' = v
      BY <1>1 DEF Kept, Writes, Wrote
    <2>2. Locks'
      BY <2>1 DEF Lawful, Locks, Proper
    <2>3. GoodRows' /\ Keeps'
      BY <2>1, RowsIn DEF Lawful, GoodRows, Keeps, Proper
    <2>4. OtherRows'
      BY <2>1 DEF Lawful, OtherRows
    <2>5. OtherWrites'
      BY <2>1, RowsIn DEF Lawful, OtherWrites, Proper
    <2>6. Snapped'
      BY <1>1 DEF Lawful, Snapped, Kept
    <2> QED
      BY <2>2, <2>3, <2>4, <2>5, <2>6 DEF Lawful
  <1>2. ASSUME Stored(c, r, v) PROVE Lawful'
    <2>1. /\ \A d \in Conns : Writes(d)' = Writes(d)
          /\ \A d \in Conns, x \in Rows : Wrote(d, x)' = Wrote(d, x)
          /\ db'[r] = v
          /\ \A x \in Rows : x # r => db'[x] = db[x]
      BY <1>2 DEF Stored, Writes, Wrote
    <2>2. Locks' /\ OtherWrites'
      BY <2>1, RowsIn DEF Lawful, Locks, OtherWrites
    <2>3. GoodRows' /\ Keeps'
      BY <2>1, RowsIn DEF Lawful, GoodRows, Keeps, Proper
    <2>4. OtherRows'
      BY <2>1, RowsIn DEF Lawful, OtherRows, Proper
    <2>5. Snapped'
      BY <1>2 DEF Lawful, Snapped, Stored
    <2> QED
      BY <2>2, <2>3, <2>4, <2>5 DEF Lawful
  <1>3. Onward
    BY RowsIn, WriteDoes DEF Kept, Stored, Onward, Succeeds, Proper
  <1> QED
    BY <1>1, <1>2, <1>3, WriteDoes

\* The end of a transaction.
LEMMA LawfulEnd ==
  ASSUME Store, Lawful, NEW c \in Conns, Flushed(c) \/ Discarded(c)
  PROVE  Lawful' /\ Onward
  <1>1. /\ \A d \in Conns : Writes(d)' = IF d = c THEN {} ELSE Writes(d)
        /\ \A d \in Conns, x \in Rows : x \in Writes(d) /\ d # c => Wrote(d, x)' = Wrote(d, x)
    BY DEF Flushed, Discarded, Ended, Writes, Wrote
  <1>2. \A x \in Rows : db'[x] = IF Flushed(c) THEN Cur(c, x) ELSE db[x]
    BY DEF Flushed, Discarded
  <1>3. Locks' /\ OtherWrites'
    BY <1>1, RowsIn DEF Lawful, Locks, OtherWrites
  <1>4. GoodRows'
    BY <1>1, <1>2, RowsIn DEF Lawful, GoodRows, Cur
  <1>5. Keeps'
    BY <1>1, <1>2, RowsIn DEF Lawful, Keeps, Locks, Cur
  <1>6. OtherRows'
    <2>1. \A m \in Msgs : db'[Reaction(m)] \in BOOLEAN
      BY <1>2, RowsIn DEF Lawful, OtherRows, OtherWrites, Cur
    <2>2. \A e \in Edits : db'[EditRow(e)] \in Bodies \cup {None}
      BY <1>2, RowsIn DEF Lawful, OtherRows, OtherWrites, Cur
    <2>3. \A s \in Saves : db'[SaveRow(s)] \in BOOLEAN /\ db'[OutboxRow(s)] \in BOOLEAN
      BY <1>2, RowsIn DEF Lawful, OtherRows, OtherWrites, Cur
    <2> QED
      BY <2>1, <2>2, <2>3 DEF OtherRows
  <1>7. Onward
    BY <1>2, RowsIn DEF Lawful, Keeps, Cur, Onward, Succeeds
  <1>8. Snapped'
    <2>1. ASSUME NEW m \in Msgs PROVE Row(m) \in Rows /\ Cur(c, Row(m)) \in MessageRows
      BY RowsIn DEF Lawful, GoodRows, Good, Cur
    <2> QED
      BY <2>1 DEF Lawful, Snapped, Flushed, Discarded, Ended
  <1> QED
    BY <1>3, <1>4, <1>5, <1>6, <1>7, <1>8 DEF Lawful

-------------------------------------------------------------------------------
(* Requests and connections.                                               *)

\* A request that takes a connection finds it in the pool, and shares it with all
\* who still have it.
LEMMA Acquired ==
  ASSUME Plain, Connections, NEW q \in Requests, NEW c \in Conns, Acquire(q, c)
  PROVE  /\ c \in free
         /\ shared \subseteq shared' /\ shared' \subseteq Requests
         /\ \A p \in Requests : conn[p] = c => pc[p] = "unwound" /\ p \in shared'
         /\ (\E p \in Requests : conn[p] = c) => q \in shared'
  <1>1. c \in free /\ c # None
    BY NamesAssumption DEF Acquire, None
  <1>2. \A p \in Requests : conn[p] = c => pc[p] = "unwound"
    BY <1>1 DEF Connections
  <1>3. Sharers(c) = {p \in Requests : conn[p] = c}
    BY <1>2 DEF Sharers
  <1> QED
    BY <1>1, <1>2, <1>3 DEF Acquire, Share, Plain

\* The kinds of requests.
LEMMA Kinds ==
  /\ \A e \in Edits : e \in Requests /\ e \in Loop /\ e \notin Recalls /\ e \notin Saves
                      /\ e \notin Toggles /\ e \notin Acks /\ On(e) \in Msgs
  /\ \A q \in Recalls : q \in Requests /\ q \notin Saves /\ q \notin Toggles /\ q \notin Acks
                        /\ q \notin Edits /\ On(q) \in Msgs
  /\ \A s \in Saves : s \in Requests /\ s \notin Toggles /\ s \notin Acks
                      /\ s \notin Edits /\ s \notin Recalls
  /\ \A t \in Toggles : t \in Requests /\ t \notin Acks /\ t \notin Edits /\ t \notin Recalls
                        /\ t \notin Saves /\ On(t) \in Msgs
  /\ \A a \in Acks : a \in Requests /\ a \notin Edits /\ a \notin Recalls /\ a \notin Saves
                     /\ a \notin Toggles /\ On(a) \in Msgs
  BY OpsAssumption, NamesAssumption DEF OpsAssumption, NamesAssumption, Requests, Loop

\* A step goes on with one request.
Only(q) ==
  /\ \A p \in Requests \ {q} : pc'[p] = pc[p] /\ conn'[p] = conn[p] /\ (p \in doubt' <=> p \in doubt)
  /\ shared \subseteq shared' /\ shared' \subseteq Requests
  /\ unpushed \subseteq unpushed' /\ raced \subseteq raced'

\* The ways in which a request changes its connection: it takes one, keeps its own
\* or gives it back, as a guard or for good.
Moves(q) ==
  \/ \E c \in Conns : /\ Acquire(q, c) /\ conn[q] = None
                      /\ \/ conn'[q] = c /\ pc'[q] \in Working /\ free' = free \ {c}
                         \/ conn'[q] = c /\ pc'[q] = "unwound" /\ free' = free
                         \/ conn'[q] = None /\ pc'[q] \notin Working \cup {"unwound"} /\ free' = free
  \/ /\ shared' = shared
     /\ \/ /\ conn'[q] = conn[q] /\ free' = free
           /\ \/ pc[q] \in Working /\ pc'[q] \in Working
              \/ pc[q] \notin Working \cup {"unwound"} /\ pc'[q] \notin Working \cup {"unwound"}
        \/ /\ pc[q] \in Working /\ conn'[q] = conn[q] /\ pc'[q] = "unwound"
           /\ free' = free \cup {conn[q]}
        \/ /\ pc[q] \in Working /\ conn'[q] = None /\ pc'[q] \notin Working \cup {"unwound"}
           /\ free' = free \cup {conn[q]}
        \/ /\ pc[q] = "unwound" /\ conn'[q] = None /\ pc'[q] \notin Working \cup {"unwound"}
           /\ free' = free

\* Each of them keeps connections apart.
LEMMA MovesConnections ==
  ASSUME Plain, Connections, NEW q \in Requests, Only(q), Moves(q)
  PROVE  Connections'
  <1>1. "unwound" \notin Working
    BY DEF Working
  <1>2. \A p \in Requests : conn[p] # None => conn[p] \in Conns
    BY DEF Plain
  <1>3. ASSUME NEW c \in Conns, Acquire(q, c), conn[q] = None,
               \/ conn'[q] = c /\ pc'[q] \in Working /\ free' = free \ {c}
               \/ conn'[q] = c /\ pc'[q] = "unwound" /\ free' = free
               \/ conn'[q] = None /\ pc'[q] \notin Working \cup {"unwound"} /\ free' = free
        PROVE  Connections'
    <2>1. c # None
      BY NamesAssumption DEF None, NamesAssumption
    <2>2. /\ c \in free
          /\ \A p \in Requests : conn[p] = c => pc[p] = "unwound" /\ p \in shared'
          /\ (\E p \in Requests : conn[p] = c) => q \in shared'
      BY <1>3, Acquired
    <2>3. \A p \in Requests : conn'[p] # None <=> pc'[p] \in Working \cup {"unwound"}
      BY <1>3, <2>1 DEF Connections, Only
    <2>4. \A p \in Requests : pc'[p] \in Working => conn'[p] \notin free'
      BY <1>1, <1>3, <2>2 DEF Connections, Only
    <2>5. ASSUME NEW p \in Requests, NEW r \in Requests, p # r, conn'[p] = conn'[r],
                 conn'[p] # None
          PROVE  p \in shared' /\ "unwound" \in {pc'[p], pc'[r]}
      BY <1>3, <2>1, <2>2, <2>5 DEF Connections, Only
    <2> QED
      BY <2>3, <2>4, <2>5 DEF Connections
  <1>4. ASSUME shared' = shared,
               \/ /\ conn'[q] = conn[q] /\ free' = free
                  /\ \/ pc[q] \in Working /\ pc'[q] \in Working
                     \/ pc[q] \notin Working \cup {"unwound"} /\ pc'[q] \notin Working \cup {"unwound"}
               \/ /\ pc[q] \in Working /\ conn'[q] = conn[q] /\ pc'[q] = "unwound"
                  /\ free' = free \cup {conn[q]}
               \/ /\ pc[q] \in Working /\ conn'[q] = None /\ pc'[q] \notin Working \cup {"unwound"}
                  /\ free' = free \cup {conn[q]}
               \/ /\ pc[q] = "unwound" /\ conn'[q] = None /\ pc'[q] \notin Working \cup {"unwound"}
                  /\ free' = free
        PROVE  Connections'
    <2>1. \A p \in Requests : conn'[p] # None <=> pc'[p] \in Working \cup {"unwound"}
      BY <1>4 DEF Connections, Only
    <2>2. \A p \in Requests : pc'[p] \in Working => conn'[p] \notin free'
      BY <1>1, <1>4 DEF Connections, Only
    <2>3. ASSUME NEW p \in Requests, NEW r \in Requests, p # r, conn'[p] = conn'[r],
                 conn'[p] # None
          PROVE  p \in shared' /\ "unwound" \in {pc'[p], pc'[r]}
      BY <1>1, <1>4, <2>3 DEF Connections, Only
    <2> QED
      BY <2>1, <2>2, <2>3 DEF Connections
  <1> QED
    BY <1>3, <1>4 DEF Moves

\* A request that is under way has a connection.
LEMMA HasConnection ==
  ASSUME Plain, Connections, NEW q \in Requests
  PROVE  /\ pc[q] \in Working \cup {"unwound"} => conn[q] \in Conns
         /\ pc[q] \in Working => conn[q] \notin free
         /\ pc[q] \notin Working \cup {"unwound"} => conn[q] = None
  BY DEF Plain, Connections

\* Faults are bounded.
LEMMA FaultCounted ==
  ASSUME Plain, Fault
  PROVE  faults' \in 0..MaxFaults
  BY OpsAssumption DEF Plain, Fault, OpsAssumption

\* Only the one request can be at a stage that is not of its kind.
LEMMA StagesMove ==
  ASSUME Stages, NEW q \in Requests, Only(q),
         q \in Edits => pc'[q] \notin {"open", "spoiled"} /\ (MayRun(q) \/ pc[q] \notin Idling),
         q \in Recalls => pc'[q] \in {"new", "saved", "done", "failed"},
         q \in Saves => pc'[q] \in {"new", "open", "updated", "spoiled", "logged", "unwound",
                                  "done", "failed"},
         q \in Toggles => /\ pc'[q] \in {"new", "read", "done", "failed"}
                          /\ q \in doubt' => pc'[q] = "failed",
         q \in Acks => pc'[q] \in {"new", "updated", "done", "failed"}
  PROVE  Stages'
  <1>1. ASSUME NEW e \in Edits, NEW d \in Edits, e # d, At(e) = At(d)
        PROVE  pc'[e] \in Idling \/ pc'[d] \in Idling
    <2>1. \A b \in Edits : b # q => pc'[b] = pc[b]
      BY Kinds DEF Only
    <2>2. q \in Edits /\ MayRun(q) => \A b \in Edits : b # q /\ At(b) = At(q) => pc[b] \in Idling
      BY Kinds DEF MayRun, Idling
    <2> QED
      BY <1>1, <2>1, <2>2 DEF Stages
  <1>2. \A p \in Requests : p # q => pc'[p] = pc[p] /\ (p \in doubt' <=> p \in doubt)
    BY DEF Only
  <1> QED
    BY <1>1, <1>2, Kinds DEF Stages

\* A request that gets no connection gives up.
LEMMA NoConnectionMoves ==
  ASSUME Plain, Stages, Connections, NEW q \in Requests, NoConnection(q)
  PROVE  Only(q) /\ Moves(q) /\ Plain' /\ Stages'
  <1>1. q \in Requests
    BY Kinds
  <1>4. Only(q)
    BY <1>1, Kinds DEF NoConnection, GiveUp, Go, Fault, pool, ghosts, Only, Plain
  <1>5. Moves(q)
    BY <1>1 DEF NoConnection, GiveUp, Go, Fault, pool, ghosts, Moves, Working, Plain, Connections
  <1>6. Plain'
    BY <1>1, Kinds, HasConnection, FaultCounted DEF NoConnection, GiveUp, Go, pool, ghosts, Plain, Working, Bodies
  <1>7. Stages'
    <2>1. pc'[q] = "failed" \/ (q \in Edits /\ pc'[q] = "again")
      BY <1>1 DEF NoConnection, GiveUp, Go, Plain
    <2>2. MayRun(q)
      BY DEF NoConnection
    <2> QED
      BY <1>1, <1>4, <2>1, <2>2, Kinds, StagesMove
  <1> QED
    BY <1>4, <1>5, <1>6, <1>7

\* The end of a guard.
LEMMA GuardEndsMoves ==
  ASSUME Plain, Stages, Connections, NEW q \in Requests, GuardEnds(q)
  PROVE  Only(q) /\ Moves(q) /\ Plain' /\ Stages'
  <1>1. q \in Requests
    BY Kinds
  <1>4. Only(q)
    BY <1>1, Kinds DEF GuardEnds, GiveUp, Go, Drop, Rollback, ghosts, Only, Plain
  <1>5. Moves(q)
    BY <1>1 DEF GuardEnds, GiveUp, Go, Drop, Rollback, ghosts, Moves, Working, Plain, Connections
  <1>6. Plain'
    BY <1>1, Kinds, HasConnection, FaultCounted DEF GuardEnds, GiveUp, Go, Drop, Rollback, ghosts, Plain, Working, Bodies
  <1>7. Stages'
    <2>1. pc'[q] = "failed" \/ (q \in Edits /\ pc'[q] = "again")
      BY <1>1 DEF GuardEnds, GiveUp, Go, Plain
    <2>2. pc[q] \notin Idling
      BY DEF GuardEnds, Idling
    <2> QED
      BY <1>1, <1>4, <2>1, <2>2, Kinds, StagesMove
  <1> QED
    BY <1>4, <1>5, <1>6, <1>7

\* The SELECT of an edit.
LEMMA EditBeginMoves ==
  ASSUME Plain, Stages, Connections, NEW e \in Edits, EditBegin(e)
  PROVE  Only(e) /\ Moves(e) /\ Plain' /\ Stages'
  <1>1. e \in Requests
    BY Kinds
  <1>2. PICK c \in Conns : Acquire(e, c)
    BY DEF EditBegin
  <1>3. shared \subseteq shared' /\ shared' \subseteq Requests
    BY <1>1, <1>2, Acquired
  <1>4. Only(e)
    BY <1>1, <1>3, Kinds DEF EditBegin, Go, Fault, Only, Plain
  <1>5. Moves(e)
    BY <1>1 DEF EditBegin, Go, Fault, Moves, Working, Plain, Connections
  <1>6. Plain'
    <2>1. PICK d \in Conns :
            /\ conn' = [conn EXCEPT ![e] = d]
            /\ \/ /\ \E x : read' = [read EXCEPT ![e] = x]
                  /\ free' = free \ {d} /\ pc' = [pc EXCEPT ![e] = "read"]
               \/ /\ UNCHANGED <<free, read>> /\ pc' = [pc EXCEPT ![e] = "unwound"]
      BY DEF EditBegin, Go
    <2>2. UNCHANGED <<kind, age, screen, told, doubt, unpushed, raced>>
      BY DEF EditBegin
    <2>3. faults' \in 0..MaxFaults
      BY FaultCounted DEF EditBegin, Plain
    <2> QED
      BY <1>1, <1>3, <2>1, <2>2, <2>3 DEF Plain
  <1>7. Stages'
    <2>1. pc'[e] \in {"read", "unwound"}
      BY <1>1 DEF EditBegin, Go, Plain
    <2>2. MayRun(e)
      BY DEF EditBegin, Acquire
    <2> QED
      BY <1>1, <1>4, <2>1, <2>2, Kinds, StagesMove
  <1> QED
    BY <1>4, <1>5, <1>6, <1>7

\* The UPDATE of an edit.
LEMMA EditUpdateMoves ==
  ASSUME Plain, Stages, Connections, NEW e \in Edits, EditUpdate(e)
  PROVE  Only(e) /\ Moves(e) /\ Plain' /\ Stages'
  <1>1. e \in Requests
    BY Kinds
  <1>4. Only(e)
    BY <1>1, Kinds DEF EditUpdate, Go, Fault, Unwind, ghosts, Only, Plain
  <1>5. Moves(e)
    BY <1>1 DEF EditUpdate, Go, Fault, Unwind, ghosts, Moves, Working, Plain, Connections
  <1>6. Plain'
    BY <1>1, Kinds, HasConnection, FaultCounted DEF EditUpdate, Go, Unwind, ghosts, Plain, Working, Bodies
  <1>7. Stages'
    <2>1. pc'[e] \in {"updated", "unwound"}
      BY <1>1 DEF EditUpdate, Unwind, Go, Plain
    <2>2. pc[e] \notin Idling
      BY DEF EditUpdate, Idling
    <2> QED
      BY <1>1, <1>4, <2>1, <2>2, Kinds, StagesMove
  <1> QED
    BY <1>4, <1>5, <1>6, <1>7

\* The row in message_edits.
LEMMA EditLogMoves ==
  ASSUME Plain, Stages, Connections, NEW e \in Edits, EditLog(e)
  PROVE  Only(e) /\ Moves(e) /\ Plain' /\ Stages'
  <1>1. e \in Requests
    BY Kinds
  <1>4. Only(e)
    BY <1>1, Kinds DEF EditLog, Go, Fault, Unwind, ghosts, Only, Plain
  <1>5. Moves(e)
    BY <1>1 DEF EditLog, Go, Fault, Unwind, ghosts, Moves, Working, Plain, Connections
  <1>6. Plain'
    BY <1>1, Kinds, HasConnection, FaultCounted DEF EditLog, Go, Unwind, ghosts, Plain, Working, Bodies
  <1>7. Stages'
    <2>1. pc'[e] \in {"logged", "unwound"}
      BY <1>1 DEF EditLog, Unwind, Go, Plain
    <2>2. pc[e] \notin Idling
      BY DEF EditLog, Idling
    <2> QED
      BY <1>1, <1>4, <2>1, <2>2, Kinds, StagesMove
  <1> QED
    BY <1>4, <1>5, <1>6, <1>7

\* The commit of an edit.
LEMMA EditCommitMoves ==
  ASSUME Plain, Stages, Connections, NEW e \in Edits, EditCommit(e)
  PROVE  Only(e) /\ Moves(e) /\ Plain' /\ Stages'
  <1>1. e \in Requests
    BY Kinds
  <1>4. Only(e)
    BY <1>1, Kinds DEF EditCommit, Go, Drop, Fault, Unwind, Doubt, Unpushed, Only, Plain
  <1>5. Moves(e)
    BY <1>1 DEF EditCommit, Go, Drop, Fault, Unwind, Doubt, Unpushed, Moves, Working, Plain, Connections
  <1>6. Plain'
    BY <1>1, Kinds, HasConnection, FaultCounted DEF EditCommit, Go, Drop, Unwind, Doubt, Unpushed, Plain, Working, Bodies
  <1>7. Stages'
    <2>1. pc'[e] \in {"saved", "unwound"}
      BY <1>1 DEF EditCommit, Unwind, Go, Plain
    <2>2. pc[e] \notin Idling
      BY DEF EditCommit, Idling
    <2> QED
      BY <1>1, <1>4, <2>1, <2>2, Kinds, StagesMove
  <1> QED
    BY <1>4, <1>5, <1>6, <1>7

\* The push of an edit.
LEMMA EditPushMoves ==
  ASSUME Plain, Stages, Connections, NEW e \in Edits, EditPush(e)
  PROVE  Only(e) /\ Moves(e) /\ Plain' /\ Stages'
  <1>1. e \in Requests
    BY Kinds
  <1>4. Only(e)
    BY <1>1, Kinds DEF EditPush, Go, Fault, Unpushed, pool, Only, Plain
  <1>5. Moves(e)
    BY <1>1 DEF EditPush, Go, Fault, Unpushed, pool, Moves, Working, Plain, Connections
  <1>6. Plain'
    <2>1. screen' \in [Msgs -> [body : Bodies, recalled : BOOLEAN]]
      <3>1. screen' = screen \/ screen' = [screen EXCEPT ![On(e)] = [screen[On(e)] EXCEPT !.body = e]]
        BY DEF EditPush
      <3> QED
        BY <3>1, Kinds DEF Plain, Bodies
    <2>2. faults' \in 0..MaxFaults /\ unpushed' \subseteq Msgs
      BY FaultCounted, Kinds DEF EditPush, Unpushed, Plain
    <2> QED
      BY <1>1, <2>1, <2>2 DEF EditPush, Go, pool, Plain
  <1>7. Stages'
    <2>1. pc'[e] = "done"
      BY <1>1 DEF EditPush, Go, Plain
    <2>2. pc[e] \notin Idling
      BY DEF EditPush, Idling
    <2> QED
      BY <1>1, <1>4, <2>1, <2>2, Kinds, StagesMove
  <1> QED
    BY <1>4, <1>5, <1>6, <1>7

\* A recall.
LEMMA RecallMoves ==
  ASSUME Plain, Stages, Connections, NEW q \in Recalls, Recall(q)
  PROVE  Only(q) /\ Moves(q) /\ Plain' /\ Stages'
  <1>1. q \in Requests
    BY Kinds
  <1>2. PICK c \in Conns : Acquire(q, c)
    BY DEF Recall
  <1>3. shared \subseteq shared' /\ shared' \subseteq Requests
    BY <1>1, <1>2, Acquired
  <1>4. Only(q)
    BY <1>1, <1>3, Kinds DEF Recall, Go, Fault, Doubt, Unpushed, Only, Plain
  <1>5. Moves(q)
    BY <1>1 DEF Recall, Go, Fault, Doubt, Unpushed, Moves, Working, Plain, Connections
  <1>6. Plain'
    <2>1. faults' \in 0..MaxFaults
      BY FaultCounted DEF Recall, Plain
    <2>2. pc' \in [Requests -> {"new", "again", "open", "read", "updated", "spoiled", "logged",
                              "unwound", "saved", "done", "failed"}]
      BY <1>1 DEF Recall, Go, Plain
    <2>3. doubt' \subseteq Requests /\ unpushed' \subseteq Msgs
      BY <1>1, Kinds DEF Recall, Doubt, Unpushed, Plain
    <2>4. UNCHANGED <<free, kind, conn, read, age, screen, told, raced>>
      BY DEF Recall
    <2> QED
      BY <1>3, <2>1, <2>2, <2>3, <2>4 DEF Plain
  <1>7. Stages'
    <2>1. pc'[q] \in {"saved", "failed"}
      BY <1>1 DEF Recall, Go, Plain
    <2> QED
      BY <1>1, <1>4, <2>1, Kinds, StagesMove
  <1> QED
    BY <1>4, <1>5, <1>6, <1>7

\* The push of a recall.
LEMMA RecallPushMoves ==
  ASSUME Plain, Stages, Connections, NEW q \in Recalls, RecallPush(q)
  PROVE  Only(q) /\ Moves(q) /\ Plain' /\ Stages'
  <1>1. q \in Requests
    BY Kinds
  <1>4. Only(q)
    BY <1>1, Kinds DEF RecallPush, Go, Fault, Unpushed, pool, Only, Plain
  <1>5. Moves(q)
    BY <1>1 DEF RecallPush, Go, Fault, Unpushed, pool, Moves, Working, Plain, Connections
  <1>6. Plain'
    <2>1. pc' = [pc EXCEPT ![q] = "done"]
      BY DEF RecallPush, Go
    <2>2. screen' \in [Msgs -> [body : Bodies, recalled : BOOLEAN]]
      <3>1. screen' = screen \/ screen' = [screen EXCEPT ![On(q)] = [screen[On(q)] EXCEPT !.recalled = TRUE]]
        BY DEF RecallPush
      <3>2. screen[On(q)] \in [body : Bodies, recalled : BOOLEAN]
        BY Kinds DEF Plain
      <3>3. [screen[On(q)] EXCEPT !.recalled = TRUE] \in [body : Bodies, recalled : BOOLEAN]
        BY <3>2
      <3> PICK v : v = [screen[On(q)] EXCEPT !.recalled = TRUE]
        OBVIOUS
      <3>4. screen' = screen \/ screen' = [screen EXCEPT ![On(q)] = v]
        BY <3>1
      <3> QED
        BY <3>3, <3>4, Kinds DEF Plain
    <2>3. UNCHANGED <<free, kind, conn, read, age, told, shared, doubt, raced>>
      BY DEF RecallPush, pool
    <2>4. faults' \in 0..MaxFaults /\ unpushed' \subseteq Msgs
      BY FaultCounted, Kinds DEF RecallPush, Unpushed, Plain
    <2> QED
      BY <1>1, <2>1, <2>2, <2>3, <2>4 DEF Plain
  <1>7. Stages'
    <2>1. pc'[q] = "done"
      BY <1>1 DEF RecallPush, Go, Plain
    <2> QED
      BY <1>1, <1>4, <2>1, Kinds, StagesMove
  <1> QED
    BY <1>4, <1>5, <1>6, <1>7

\* The transaction of a save.
LEMMA SaveBeginMoves ==
  ASSUME Plain, Stages, Connections, NEW s \in Saves, SaveBegin(s)
  PROVE  Only(s) /\ Moves(s) /\ Plain' /\ Stages'
  <1>1. s \in Requests
    BY Kinds
  <1>2. PICK c \in Conns : Acquire(s, c)
    BY DEF SaveBegin
  <1>3. shared \subseteq shared' /\ shared' \subseteq Requests
    BY <1>1, <1>2, Acquired
  <1>4. Only(s)
    BY <1>1, <1>3, Kinds DEF SaveBegin, Go, Only, Plain
  <1>5. Moves(s)
    BY <1>1 DEF SaveBegin, Go, Moves, Working, Plain, Connections
  <1>6. Plain'
    BY <1>1, <1>3, Kinds, HasConnection, FaultCounted DEF SaveBegin, Go, Plain, Working, Bodies
  <1>7. Stages'
    <2>1. pc'[s] = "open"
      BY <1>1 DEF SaveBegin, Go, Plain
    <2> QED
      BY <1>1, <1>4, <2>1, Kinds, StagesMove
  <1> QED
    BY <1>4, <1>5, <1>6, <1>7

\* The rows of a save.
LEMMA SaveInsertMoves ==
  ASSUME Plain, Stages, Connections, NEW s \in Saves, SaveInsert(s)
  PROVE  Only(s) /\ Moves(s) /\ Plain' /\ Stages'
  <1>1. s \in Requests
    BY Kinds
  <1>4. Only(s)
    BY <1>1, Kinds DEF SaveInsert, Go, Fault, Unwind, ghosts, Only, Plain
  <1>5. Moves(s)
    BY <1>1 DEF SaveInsert, Go, Fault, Unwind, ghosts, Moves, Working, Plain, Connections
  <1>6. Plain'
    <2>1. faults' \in 0..MaxFaults
      BY FaultCounted DEF SaveInsert, Plain
    <2>2. pc' \in [Requests -> {"new", "again", "open", "read", "updated", "spoiled", "logged",
                              "unwound", "saved", "done", "failed"}]
      BY <1>1 DEF SaveInsert, Go, Unwind, Plain
    <2>3. free' \subseteq Conns
      <3>1. pc[s] \in Working
        BY DEF SaveInsert, Working
      <3>2. conn[s] \in Conns /\ free \subseteq Conns
        BY <1>1, <3>1, HasConnection DEF Plain
      <3>3. free' = free \/ free' = free \cup {conn[s]}
        BY DEF SaveInsert, Unwind
      <3> QED
        BY <3>2, <3>3
    <2>4. UNCHANGED <<kind, conn, read, age, screen, told, shared, doubt, unpushed, raced>>
      BY DEF SaveInsert, ghosts
    <2> QED
      BY <2>1, <2>2, <2>3, <2>4 DEF Plain
  <1>7. Stages'
    <2>1. pc'[s] \in {"updated", "spoiled", "logged", "unwound"}
      BY <1>1 DEF SaveInsert, Unwind, Go, Plain
    <2> QED
      BY <1>1, <1>4, <2>1, Kinds, StagesMove
  <1> QED
    BY <1>4, <1>5, <1>6, <1>7

\* The commit of a save.
LEMMA SaveCommitMoves ==
  ASSUME Plain, Stages, Connections, NEW s \in Saves, SaveCommit(s)
  PROVE  Only(s) /\ Moves(s) /\ Plain' /\ Stages'
  <1>1. s \in Requests
    BY Kinds
  <1>4. Only(s)
    BY <1>1, Kinds DEF SaveCommit, Go, Drop, Fault, Unwind, Doubt, Only, Plain
  <1>5. Moves(s)
    BY <1>1 DEF SaveCommit, Go, Drop, Fault, Unwind, Doubt, Moves, Working, Plain, Connections
  <1>6. Plain'
    BY <1>1, Kinds, HasConnection, FaultCounted DEF SaveCommit, Go, Drop, Unwind, Doubt, Plain, Working, Bodies
  <1>7. Stages'
    <2>1. pc'[s] \in {"done", "unwound"}
      BY <1>1 DEF SaveCommit, Unwind, Go, Plain
    <2> QED
      BY <1>1, <1>4, <2>1, Kinds, StagesMove
  <1> QED
    BY <1>4, <1>5, <1>6, <1>7

\* The SELECT of a toggle.
LEMMA ToggleReadMoves ==
  ASSUME Plain, Stages, Connections, NEW t \in Toggles, ToggleRead(t)
  PROVE  Only(t) /\ Moves(t) /\ Plain' /\ Stages'
  <1>1. t \in Requests
    BY Kinds
  <1>2. PICK c \in Conns : Acquire(t, c)
    BY DEF ToggleRead
  <1>3. shared \subseteq shared' /\ shared' \subseteq Requests
    BY <1>1, <1>2, Acquired
  <1>4. Only(t)
    BY <1>1, <1>3, Kinds DEF ToggleRead, Go, Fault, Only, Plain
  <1>5. Moves(t)
    BY <1>1 DEF ToggleRead, Go, Fault, Moves, Working, Plain, Connections
  <1>6. Plain'
    BY <1>1, <1>3, Kinds, HasConnection, FaultCounted DEF ToggleRead, Go, Fault, Plain, Working, Bodies
  <1>7. Stages'
    <2>1. pc'[t] = "read" /\ t \notin doubt'
      BY <1>1 DEF ToggleRead, Stages, Go, Plain
    <2> QED
      BY <1>1, <1>4, <2>1, Kinds, StagesMove
  <1> QED
    BY <1>4, <1>5, <1>6, <1>7

\* The statement of a toggle.
LEMMA ToggleWriteMoves ==
  ASSUME Plain, Stages, Connections, NEW t \in Toggles, ToggleWrite(t)
  PROVE  Only(t) /\ Moves(t) /\ Plain' /\ Stages'
  <1>1. t \in Requests
    BY Kinds
  <1>4. Only(t)
    BY <1>1, Kinds DEF ToggleWrite, Go, Drop, Fault, Doubt, Only, Plain
  <1>5. Moves(t)
    BY <1>1 DEF ToggleWrite, Go, Drop, Fault, Doubt, Moves, Working, Plain, Connections
  <1>6. Plain'
    BY <1>1, Kinds, HasConnection, FaultCounted DEF ToggleWrite, Go, Drop, Doubt, Plain, Working, Bodies
  <1>7. Stages'
    <2>1. pc'[t] \in {"done", "failed"} /\ (t \in doubt' => pc'[t] = "failed")
      BY <1>1 DEF ToggleWrite, Stages, Doubt, Go, Plain
    <2> QED
      BY <1>1, <1>4, <2>1, Kinds, StagesMove
  <1> QED
    BY <1>4, <1>5, <1>6, <1>7

\* The UPDATE of an ack.
LEMMA AckUpdateMoves ==
  ASSUME Plain, Stages, Connections, NEW a \in Acks, AckUpdate(a)
  PROVE  Only(a) /\ Moves(a) /\ Plain' /\ Stages'
  <1>1. a \in Requests
    BY Kinds
  <1>2. PICK c \in Conns : Acquire(a, c)
    BY DEF AckUpdate
  <1>3. shared \subseteq shared' /\ shared' \subseteq Requests
    BY <1>1, <1>2, Acquired
  <1>4. Only(a)
    BY <1>1, <1>3, Kinds DEF AckUpdate, Go, Fault, Doubt, Only, Plain
  <1>5. Moves(a)
    BY <1>1 DEF AckUpdate, Go, Fault, Doubt, Moves, Working, Plain, Connections
  <1>6. Plain'
    BY <1>1, <1>3, Kinds, HasConnection, FaultCounted DEF AckUpdate, Go, Doubt, Plain, Working, Bodies
  <1>7. Stages'
    <2>1. pc'[a] \in {"updated", "failed"}
      BY <1>1 DEF AckUpdate, Go, Plain
    <2> QED
      BY <1>1, <1>4, <2>1, Kinds, StagesMove
  <1> QED
    BY <1>4, <1>5, <1>6, <1>7

\* What an ack reports is a number.
LEMMA CountIsNat ==
  ASSUME Store, Lawful, NEW c \in Conns, NEW m \in Msgs
  PROVE  Selected(c)[Row(m)].delivered \in Nat
  <1>1. Row(m) \in Rows
    BY RowsIn
  <1>2. CASE tx[c].open
    <2>1. DOMAIN tx[c].snap = Rows /\ tx[c].snap[Row(m)] \in MessageRows
      BY <1>2 DEF Lawful, Snapped
    <2>2. Row(m) \in Writes(c) => Wrote(c, Row(m)) \in MessageRows
      BY DEF Lawful, GoodRows, Good
    <2>3. Selected(c)[Row(m)] = IF Row(m) \in Writes(c) THEN Wrote(c, Row(m)) ELSE tx[c].snap[Row(m)]
      BY <1>1, <1>2, <2>1 DEF Selected, Over, Writes, Wrote
    <2>4. Selected(c)[Row(m)] \in MessageRows
      BY <2>1, <2>2, <2>3
    <2> QED
      BY <2>4 DEF MessageRows
  <1>3. CASE ~tx[c].open
    BY <1>3 DEF Selected, Lawful, GoodRows, Good, MessageRows
  <1> QED
    BY <1>2, <1>3

\* The push of an ack.
LEMMA AckPushMoves ==
  ASSUME Store, Lawful, Plain, Stages, Connections, NEW a \in Acks, AckPush(a)
  PROVE  Only(a) /\ Moves(a) /\ Plain' /\ Stages'
  <1>1. a \in Requests
    BY Kinds
  <1>4. Only(a)
    BY <1>1, Kinds DEF AckPush, Go, Drop, Fault, Doubt, Only, Plain
  <1>5. Moves(a)
    BY <1>1 DEF AckPush, Go, Drop, Fault, Doubt, Moves, Working, Plain, Connections
  <1>6. Plain'
    <2>1. pc[a] = "updated" /\ conn[a] \in Conns /\ On(a) \in Msgs
      BY <1>1, Kinds, HasConnection DEF AckPush, Working
    <2>2. told' \in [Msgs -> Nat]
      <3> PICK n : n = IF On(a) \in Private THEN 1 ELSE Selected(conn[a])[Row(On(a))].delivered
        OBVIOUS
      <3>1. n \in Nat
        BY <2>1, CountIsNat
      <3>2. told' = told \/ told' = [told EXCEPT ![On(a)] = n]
        BY DEF AckPush
      <3> QED
        BY <2>1, <3>1, <3>2 DEF Plain
    <2>3. faults' \in 0..MaxFaults /\ doubt' \subseteq Requests
      BY <1>1, FaultCounted DEF AckPush, Doubt, Plain
    <2> QED
      BY <1>1, <2>1, <2>2, <2>3 DEF AckPush, Go, Drop, Plain
  <1>7. Stages'
    <2>1. pc'[a] = "done"
      BY <1>1 DEF AckPush, Go, Plain
    <2> QED
      BY <1>1, <1>4, <2>1, Kinds, StagesMove
  <1> QED
    BY <1>4, <1>5, <1>6, <1>7

-------------------------------------------------------------------------------
(* Whose transactions are open, and whose bodies are in them.              *)

\* Edits and saves keep their connections, but for those that have c.
Stays(c) ==
  /\ \A q \in Edits \cup Saves : conn[q] # c /\ conn[q] # None => conn'[q] = conn[q]
  /\ shared \subseteq shared'

\* A row of message_edits is not deleted.
LEMMA VouchedStays ==
  ASSUME Store, Lawful, NEW c \in Conns, shared \subseteq shared',
         \/ Flushed(c) \/ db' = db
         \/ \E r \in Rows : \E v : Stored(c, r, v) /\ \A d \in Edits : r = EditRow(d) => v # None
  PROVE  \A e \in Edits, m \in Msgs : Vouched(e, m) => Vouched(e, m)'
  <1>1. \A e \in Edits : EditRow(e) \in Writes(c) => Wrote(c, EditRow(e)) # None
    BY NamesAssumption DEF Lawful, OtherWrites, Bodies, None, First, NamesAssumption
  <1>2. \A e \in Edits : db[EditRow(e)] # None => db'[EditRow(e)] # None
    BY <1>1, RowsIn DEF Flushed, Cur, Stored
  <1> QED
    BY <1>2 DEF Vouched

\* What the transaction of c holds may be committed if its edits may.
LEMMA BodiedEnd ==
  ASSUME Store, Lawful, Bodied, NEW c \in Conns, Stays(c),
         \/ Discarded(c)
         \/ /\ Flushed(c)
            /\ \A e \in Edits : conn[e] = c => e \in shared' \/ db'[EditRow(e)] # None
  PROVE  Bodied'
  <1>1. \A e \in Edits, m \in Msgs : Vouched(e, m) => Vouched(e, m)'
    BY VouchedStays DEF Stays, Discarded
  <1>2. /\ \A d \in Conns : Writes(d)' = IF d = c THEN {} ELSE Writes(d)
        /\ \A d \in Conns, x \in Rows : x \in Writes(d) /\ d # c => Wrote(d, x)' = Wrote(d, x)
    BY DEF Flushed, Discarded, Ended, Writes, Wrote
  <1>3. ASSUME NEW m \in Msgs, NEW e \in Edits, db'[Row(m)].body = e
        PROVE  Vouched(e, m)'
    <2>1. CASE db'[Row(m)] = db[Row(m)]
      BY <1>1, <1>3, <2>1 DEF Bodied
    <2>2. CASE /\ Flushed(c) /\ Row(m) \in Writes(c)
               /\ \A d \in Edits : conn[d] = c => d \in shared' \/ db'[EditRow(d)] # None
      <3>1. Vouched(e, m) \/ (On(e) = m /\ conn[e] = c)
        BY <1>3, <2>2, RowsIn DEF Flushed, Cur, Bodied
      <3> QED
        BY <1>1, <2>2, <3>1 DEF Vouched
    <2> QED
      BY <2>1, <2>2, RowsIn DEF Flushed, Cur, Discarded
  <1>4. ASSUME NEW d \in Conns, NEW m \in Msgs, NEW e \in Edits, Row(m) \in Writes(d)',
               Wrote(d, Row(m))'.body = e
        PROVE  Vouched(e, m)' \/ (On(e) = m /\ conn'[e] = d)
    <2>1. d # c /\ Row(m) \in Writes(d) /\ Wrote(d, Row(m))' = Wrote(d, Row(m))
      BY <1>2, <1>4, RowsIn
    <2>2. Vouched(e, m) \/ (On(e) = m /\ conn[e] = d)
      BY <1>4, <2>1 DEF Bodied
    <2> QED
      BY <1>1, <2>1, <2>2, NamesAssumption DEF Stays, None, NamesAssumption
  <1> QED
    BY <1>3, <1>4 DEF Bodied

\* A body is written by the edit whose body it is, in its transaction, or taken
\* over from the row that was there.
LEMMA BodiedRow ==
  ASSUME Store, Lawful, Bodied, NEW c \in Conns, NEW m \in Msgs, NEW v,
         Stays(None), Write(c, Row(m), v), Good(m, v),
         \/ v.body = Cur(c, Row(m)).body
         \/ /\ v.body \in Edits /\ On(v.body) = m /\ conn[v.body] = c
            /\ tx[c].open \/ v.body \in shared
  PROVE  Bodied'
  <1>1. Row(m) \in Rows /\ c # None
    BY RowsIn, NamesAssumption DEF None, NamesAssumption
  <1>2. Kept(c, Row(m), v) \/ Stored(c, Row(m), v)
    BY <1>1, WriteDoes
  <1>3. \A e \in Edits, n \in Msgs : Vouched(e, n) => Vouched(e, n)'
    BY <1>1, <1>2, VouchedStays, RowsApart DEF Stays, Kept
  <1>4. \A e \in Edits, d \in Conns : conn[e] = d => conn'[e] = d
    BY NamesAssumption DEF Stays, None, NamesAssumption
  <1>5. \A e \in Edits : v.body = e =>
          \/ Vouched(e, m)
          \/ tx[c].open /\ On(e) = m /\ conn[e] = c
    BY DEF Cur, Bodied, Vouched, Store
  <1>6. CASE Kept(c, Row(m), v)
    <2>1. db' = db
      BY <1>6 DEF Kept
    <2>2. ASSUME NEW n \in Msgs, NEW d \in Conns, NEW e \in Edits, Row(n) \in Writes(d)',
                 Wrote(d, Row(n))'.body = e
          PROVE  Vouched(e, n)' \/ (On(e) = n /\ conn'[e] = d)
      <3>1. CASE n = m /\ d = c
        <4>1. v.body = e
          BY <1>6, <2>2, <3>1 DEF Kept
        <4> QED
          BY <1>3, <1>4, <1>5, <3>1, <4>1
      <3>2. CASE n # m \/ d # c
        <4>1. Row(n) \in Writes(d) /\ Wrote(d, Row(n))' = Wrote(d, Row(n))
          BY <1>6, <2>2, <3>2, RowsApart DEF Kept, Writes, Wrote
        <4>2. Vouched(e, n) \/ (On(e) = n /\ conn[e] = d)
          BY <2>2, <4>1 DEF Bodied
        <4> QED
          BY <1>3, <1>4, <4>2
      <3> QED
        BY <3>1, <3>2
    <2> QED
      BY <1>3, <2>1, <2>2 DEF Bodied
  <1>7. CASE Stored(c, Row(m), v)
    <2>1. ASSUME NEW n \in Msgs, NEW e \in Edits, db'[Row(n)].body = e
          PROVE  Vouched(e, n)'
      BY <1>3, <1>5, <1>7, <2>1, RowsIn, RowsApart DEF Stored, Bodied
    <2>2. ASSUME NEW n \in Msgs, NEW d \in Conns, NEW e \in Edits, Row(n) \in Writes(d)',
                 Wrote(d, Row(n))'.body = e
          PROVE  Vouched(e, n)' \/ (On(e) = n /\ conn'[e] = d)
      <3>1. Row(n) \in Writes(d) /\ Wrote(d, Row(n)).body = e
        BY <1>7, <2>2 DEF Stored, Writes, Wrote
      <3> QED
        BY <1>3, <1>4, <3>1 DEF Bodied
    <2> QED
      BY <2>1, <2>2 DEF Bodied
  <1> QED
    BY <1>2, <1>6, <1>7

\* A step that writes no message.
LEMMA BodiedStill ==
  ASSUME Store, Lawful, Bodied, Stays(None),
         \/ UNCHANGED <<db, tx>>
         \/ \E c \in Conns, r \in Rows : \E v : Write(c, r, v) /\ Proper(r, v)
  PROVE  Bodied'
  <1>1. \A e \in Edits, d \in Conns : conn[e] = d => conn'[e] = d
    BY NamesAssumption DEF Stays, None, NamesAssumption
  <1>2. CASE UNCHANGED <<db, tx>>
    BY <1>1, <1>2 DEF Bodied, Vouched, Stays, Writes, Wrote
  <1>3. ASSUME NEW c \in Conns, NEW r \in Rows, NEW v, Write(c, r, v), Proper(r, v)
        PROVE  Bodied'
    <2>1. Kept(c, r, v) \/ Stored(c, r, v)
      BY <1>3, WriteDoes
    <2>2. \A d \in Edits : r = EditRow(d) => v # None
      BY <1>3, NamesAssumption DEF Proper, Bodies, None, First, NamesAssumption
    <2>3. \A e \in Edits, n \in Msgs : Vouched(e, n) => Vouched(e, n)'
      BY <2>1, <2>2, VouchedStays DEF Stays, Kept
    <2>4. \A n \in Msgs : r # Row(n)
      BY <1>3 DEF Proper
    <2>5. \A n \in Msgs : db'[Row(n)] = db[Row(n)]
      BY <2>1, <2>4, RowsIn DEF Kept, Stored
    <2>6. \A n \in Msgs, d \in Conns : Row(n) \in Writes(d)' =>
            Row(n) \in Writes(d) /\ Wrote(d, Row(n))' = Wrote(d, Row(n))
      BY <2>1, <2>4 DEF Kept, Stored, Writes, Wrote
    <2> QED
      BY <1>1, <2>3, <2>5, <2>6 DEF Bodied
  <1> QED
    BY <1>2, <1>3

\* The rows that a request writes.
Mine(q) == {Row(On(q)), Reaction(On(q)), EditRow(q), SaveRow(q), OutboxRow(q)}

\* A step of q changes the transaction of no connection but c, whose other users
\* are known to share it; and rows that are neither q's nor in that transaction
\* stay out of it and as they are.
TouchesAt(q, c) ==
  /\ \A d \in Conns \ {c} : tx'[d] = tx[d]
  /\ \A p \in Requests \ {q} : conn[p] = c => p \in shared'
  /\ \A x \in Rows \ Mine(q) : x \notin Writes(c) => x \notin Writes(c)' /\ db'[x] = db[x]

Touches(q) == UNCHANGED <<db, tx>> \/ \E c \in Conns : TouchesAt(q, c)

\* What holds of the rows and the transactions before a step of q, and after it.
Core == Store /\ Lawful /\ Plain /\ Stages /\ Connections /\ Transactions /\ Bodied

Pooled(q) == Store' /\ Lawful' /\ Onward /\ Bodied' /\ Transactions' /\ Touches(q)

\* A step that does not touch the database.
LEMMA StillPooled ==
  ASSUME Core, NEW q \in Requests, Stays(None), UNCHANGED <<db, tx>>
  PROVE  Pooled(q)
  <1>1. Store' /\ Lawful' /\ Onward
    BY LawfulStill DEF Core
  <1>2. Bodied'
    BY BodiedStill DEF Core
  <1>3. Transactions'
    BY NamesAssumption DEF Core, Transactions, Stays, None, NamesAssumption
  <1> QED
    BY <1>1, <1>2, <1>3 DEF Pooled, Touches

\* A statement leaves transactions open and closed as they were.
LEMMA WriteTouches ==
  ASSUME Core, NEW q \in Requests, NEW c \in Conns, NEW r \in Rows, NEW v,
         Stays(None), Write(c, r, v), r \in Mine(q),
         \A p \in Requests \ {q} : conn[p] = c => p \in shared'
  PROVE  Store' /\ Transactions' /\ Touches(q)
  <1>1. Store' /\ (Kept(c, r, v) \/ Stored(c, r, v))
    BY WriteDoes DEF Core
  <1>2. \A d \in Conns : tx'[d].open = tx[d].open
    <2>1. CASE Kept(c, r, v)
      BY <1>1, <2>1 DEF Kept, Core, Store
    <2>2. CASE Stored(c, r, v)
      BY <2>2 DEF Stored
    <2> QED
      BY <1>1, <2>1, <2>2
  <1>3. Transactions'
    BY <1>2, NamesAssumption DEF Core, Transactions, Stays, None, NamesAssumption
  <1>4. TouchesAt(q, c)
    BY <1>1 DEF Kept, Stored, TouchesAt, Writes
  <1> QED
    BY <1>1, <1>3, <1>4 DEF Touches

\* A statement on a message.
LEMMA RowPooled ==
  ASSUME Core, NEW q \in Requests, NEW c \in Conns, NEW v, On(q) \in Msgs,
         Stays(None), Write(c, Row(On(q)), v), Unlocked(c, Row(On(q))), Good(On(q), v),
         Succeeds(v, Cur(c, Row(On(q)))),
         \/ v.body = Cur(c, Row(On(q))).body
         \/ /\ v.body = q /\ q \in Edits /\ conn[q] = c
            /\ tx[c].open \/ q \in shared,
         \A p \in Requests \ {q} : conn[p] = c => p \in shared'
  PROVE  Pooled(q)
  <1>1. Row(On(q)) \in Rows /\ Row(On(q)) \in Mine(q)
    BY RowsIn DEF Mine
  <1>2. Store' /\ Transactions' /\ Touches(q)
    BY <1>1, WriteTouches
  <1>3. Lawful' /\ Onward
    BY LawfulRow DEF Core
  <1>4. Bodied'
    BY BodiedRow DEF Core
  <1> QED
    BY <1>2, <1>3, <1>4 DEF Pooled

\* A statement on another table.
LEMMA OtherPooled ==
  ASSUME Core, NEW q \in Requests, NEW c \in Conns, NEW r \in Rows, NEW v,
         Stays(None), Write(c, r, v), Proper(r, v), r \in Mine(q),
         \A p \in Requests \ {q} : conn[p] = c => p \in shared'
  PROVE  Pooled(q)
  <1>1. Store' /\ Transactions' /\ Touches(q)
    BY WriteTouches
  <1>2. Lawful' /\ Onward
    BY LawfulOther DEF Core
  <1>3. Bodied'
    BY BodiedStill DEF Core
  <1> QED
    BY <1>1, <1>2, <1>3 DEF Pooled

\* The end of a transaction.
LEMMA EndPooled ==
  ASSUME Core, NEW q \in Requests, NEW c \in Conns, Stays(c), Store',
         \/ Discarded(c)
         \/ /\ Flushed(c)
            /\ \A e \in Edits : conn[e] = c => e \in shared' \/ db'[EditRow(e)] # None,
         tx'[c].open => \E p \in Edits \cup Saves : conn'[p] = c,
         \A p \in Requests \ {q} : conn[p] = c => p \in shared'
  PROVE  Pooled(q)
  <1>1. Lawful' /\ Onward
    BY LawfulEnd DEF Core
  <1>2. Bodied'
    BY BodiedEnd DEF Core
  <1>3. Transactions'
    <2>1. \A d \in Conns \ {c} : tx'[d] = tx[d]
      BY DEF Flushed, Discarded, Ended
    <2> QED
      BY <2>1, NamesAssumption DEF Core, Transactions, Stays, None, NamesAssumption
  <1>4. TouchesAt(q, c)
    BY DEF Flushed, Discarded, Ended, TouchesAt, Cur
  <1> QED
    BY <1>1, <1>2, <1>3, <1>4 DEF Pooled, Touches

\* Who else has the connection of q is known to share it.
LEMMA Partners ==
  ASSUME Core, NEW q \in Requests, Only(q), conn[q] # None
  PROVE  \A p \in Requests \ {q} : conn[p] = conn[q] => p \in shared /\ p \in shared'
  BY DEF Core, Connections, Only

-------------------------------------------------------------------------------
(* What every step leaves in the database.                                 *)

\* What a statement finds is a row as it should be, and no step back from what is
\* committed.
LEMMA CurGood ==
  ASSUME Store, Lawful, NEW c \in Conns, NEW m \in Msgs
  PROVE  /\ Good(m, Cur(c, Row(m))) /\ Succeeds(Cur(c, Row(m)), db[Row(m)])
         /\ Current(c)[Row(m)] = Cur(c, Row(m))
  BY CurrentIs, RowsIn DEF Lawful, GoodRows, Keeps, Cur, Succeeds

\* A step that leaves the connections of edits and saves alone.
LEMMA StaysNone ==
  ASSUME NEW q \in Requests, Only(q), conn'[q] = conn[q] \/ conn[q] = None \/ q \in Toggles \cup Acks
  PROVE  Stays(None)
  BY Kinds DEF Only, Stays

\* A step of a request that has c, or none.
LEMMA StaysAt ==
  ASSUME NEW q \in Requests, NEW c, Only(q), conn[q] \in {c, None}
  PROVE  Stays(c)
  BY Kinds DEF Only, Stays

\* A request gives up, or goes on, without a statement.
LEMMA QuietPooled ==
  ASSUME Core, NEW q \in Requests, Only(q), UNCHANGED <<db, tx>>,
         conn'[q] = conn[q] \/ conn[q] = None \/ q \in Toggles \cup Acks
  PROVE  Pooled(q)
  BY StillPooled, StaysNone

\* The guard of a failed transaction.
LEMMA GuardEndsPooled ==
  ASSUME Core, NEW q \in Requests, Only(q), GuardEnds(q)
  PROVE  Pooled(q)
  <1> PICK c : c = conn[q]
    OBVIOUS
  <1>1. c \in Conns /\ c # None /\ Rollback(c)
    BY HasConnection, NamesAssumption DEF Core, GuardEnds, Working, None, NamesAssumption
  <1>2. Store' /\ Discarded(c)
    BY <1>1, RollbackDoes DEF Core
  <1>3. Stays(c)
    BY StaysAt
  <1>4. \A p \in Requests \ {q} : conn[p] = c => p \in shared'
    BY <1>1, Partners
  <1>5. ~tx'[c].open
    BY <1>2 DEF Discarded
  <1> QED
    BY <1>1, <1>2, <1>3, <1>4, <1>5, EndPooled

\* The transaction of an edit begins.
LEMMA EditBeginPooled ==
  ASSUME Core, NEW e \in Edits, Only(e), EditBegin(e)
  PROVE  Pooled(e)
  <1>1. e \in Requests
    BY Kinds
  <1>2. PICK c \in Conns : Acquire(e, c) /\ Begin(c) /\ conn' = [conn EXCEPT ![e] = c]
    BY DEF EditBegin
  <1>3. /\ \A p \in Requests : conn[p] = c => p \in shared'
    BY <1>1, <1>2, Acquired DEF Core
  <1>4. Store' /\ Flushed(c) /\ tx'[c].open
    BY <1>2, BeginDoes DEF Core
  <1>5. conn[e] = None
    BY <1>1, HasConnection DEF Core, EditBegin, Working
  <1>6. Stays(c)
    BY <1>1, <1>5, StaysAt
  <1>7. conn'[e] = c
    BY <1>1, <1>2 DEF Core, Plain
  <1> QED
    BY <1>1, <1>3, <1>4, <1>6, <1>7, Kinds, EndPooled

\* The transaction of a save begins.
LEMMA SaveBeginPooled ==
  ASSUME Core, NEW s \in Saves, Only(s), SaveBegin(s)
  PROVE  Pooled(s)
  <1>1. s \in Requests
    BY Kinds
  <1>2. PICK c \in Conns : Acquire(s, c) /\ Begin(c) /\ conn' = [conn EXCEPT ![s] = c]
    BY DEF SaveBegin
  <1>3. /\ \A p \in Requests : conn[p] = c => p \in shared'
    BY <1>1, <1>2, Acquired DEF Core
  <1>4. Store' /\ Flushed(c) /\ tx'[c].open
    BY <1>2, BeginDoes DEF Core
  <1>5. conn[s] = None
    BY <1>1, HasConnection DEF Core, SaveBegin, Working
  <1>6. Stays(c)
    BY <1>1, <1>5, StaysAt
  <1>7. conn'[s] = c
    BY <1>1, <1>2 DEF Core, Plain
  <1> QED
    BY <1>1, <1>3, <1>4, <1>6, <1>7, Kinds, EndPooled

\* The row as the UPDATE of an edit leaves it.
LEMMA EditedGood ==
  ASSUME Core, Remembered, NEW e \in Edits, pc[e] = "read", NEW c \in Conns,
         ~Cur(c, Row(On(e))).recalled
  PROVE  /\ Good(On(e), Edited(e, Cur(c, Row(On(e)))))
         /\ Succeeds(Edited(e, Cur(c, Row(On(e)))), Cur(c, Row(On(e))))
         /\ Edited(e, Cur(c, Row(On(e)))).body = e
         /\ Edited(e, Cur(c, Row(On(e)))).recalled = Cur(c, Row(On(e))).recalled
         /\ Edited(e, Cur(c, Row(On(e)))).delivered = Cur(c, Row(On(e))).delivered
  <1> DEFINE row == Cur(c, Row(On(e)))  new == Edited(e, row)
  <1>1. On(e) \in Msgs /\ e # First /\ e \in Bodies
    BY Kinds, NamesAssumption DEF First, Bodies, NamesAssumption
  <1>2. Good(On(e), row) /\ Succeeds(row, db[Row(On(e))])
    BY <1>1, CurGood DEF Core
  <1>3. row \in MessageRows /\ row.original = IF row.body = First THEN None ELSE First
    BY <1>2 DEF Good
  <1>4. (IF read[e].original = None THEN read[e].old ELSE row.original) = First
    BY <1>2, <1>3 DEF Remembered, Succeeds
  <1> HIDE DEF row
  <1>5. new = [row EXCEPT !.body = e, !.original = First]
    BY <1>3, <1>4 DEF Edited, MessageRows
  <1>6. new \in MessageRows /\ new.body = e /\ new.original = First
        /\ new.recalled = row.recalled /\ new.delivered = row.delivered
    BY <1>1, <1>3, <1>5 DEF MessageRows, Bodies
  <1> HIDE DEF new
  <1>7. Good(On(e), new)
    BY <1>1, <1>2, <1>6 DEF Good
  <1>8. ~row.recalled
    BY DEF row
  <1>9. Succeeds(new, row)
    BY <1>1, <1>6, <1>8 DEF Succeeds
  <1> QED
    BY <1>6, <1>7, <1>9 DEF new, row

\* A request that works has a connection, which only sharers have too.
LEMMA WorkingHas ==
  ASSUME Core, NEW q \in Requests, Only(q), pc[q] \in Working
  PROVE  /\ conn[q] \in Conns /\ conn[q] # None
         /\ \A p \in Requests \ {q} : conn[p] = conn[q] => p \in shared /\ p \in shared'
  <1>1. conn[q] \in Conns /\ conn[q] # None
    BY HasConnection, NamesAssumption DEF Core, None, NamesAssumption
  <1> QED
    BY <1>1, Partners

\* The UPDATE of an edit.
LEMMA EditUpdatePooled ==
  ASSUME Core, Remembered, EditsOwn, NEW e \in Edits, Only(e), EditUpdate(e)
  PROVE  Pooled(e)
  <1> PICK c : c = conn[e]
    OBVIOUS
  <1>1. e \in Requests /\ On(e) \in Msgs
    BY Kinds
  <1>2. pc[e] = "read" /\ conn'[e] = c /\ Unlocked(c, Row(On(e)))
    BY DEF EditUpdate
  <1>3. c \in Conns /\ \A p \in Requests \ {e} : conn[p] = c => p \in shared'
    BY <1>1, <1>2, WorkingHas DEF Working
  <1>4. Stays(None)
    BY <1>1, <1>2, StaysNone
  <1>5. Current(c)[Row(On(e))] = Cur(c, Row(On(e)))
    BY <1>1, <1>3, CurGood DEF Core
  <1>6. CASE /\ ~Cur(c, Row(On(e))).recalled
             /\ Write(c, Row(On(e)), Edited(e, Cur(c, Row(On(e)))))
    <2> DEFINE v == Edited(e, Cur(c, Row(On(e))))
    <2>1. Good(On(e), v) /\ Succeeds(v, Cur(c, Row(On(e)))) /\ v.body = e
      BY <1>2, <1>3, <1>6, EditedGood
    <2>2. tx[c].open \/ e \in shared
      BY <1>2 DEF EditsOwn, EditOwns, Working
    <2> HIDE DEF v
    <2>3. Write(c, Row(On(e)), v)
      BY <1>6 DEF v
    <2> QED
      BY <1>1, <1>2, <1>3, <1>4, <2>1, <2>2, <2>3, RowPooled
  <1>7. CASE UNCHANGED <<db, tx>>
    BY <1>1, <1>4, <1>7, StillPooled
  <1> QED
    BY <1>5, <1>6, <1>7 DEF EditUpdate, Tried

\* The row in message_edits.
LEMMA EditLogPooled ==
  ASSUME Core, Remembered, NEW e \in Edits, Only(e), EditLog(e)
  PROVE  Pooled(e)
  <1> PICK c : c = conn[e]
    OBVIOUS
  <1>1. e \in Requests /\ EditRow(e) \in Rows /\ EditRow(e) \in Mine(e)
    BY Kinds, RowsIn DEF Mine
  <1>2. pc[e] = "updated" /\ conn'[e] = conn[e]
    BY DEF EditLog
  <1>3. c \in Conns /\ \A p \in Requests \ {e} : conn[p] = c => p \in shared'
    BY <1>1, <1>2, WorkingHas DEF Working
  <1>4. Stays(None)
    BY <1>1, <1>2, StaysNone
  <1>5. Proper(EditRow(e), read[e].old)
    BY <1>2, RowsApart DEF Proper, Remembered
  <1>6. CASE Write(c, EditRow(e), read[e].old)
    BY <1>1, <1>3, <1>4, <1>5, <1>6, OtherPooled
  <1>7. CASE UNCHANGED <<db, tx>>
    BY <1>1, <1>4, <1>7, StillPooled
  <1> QED
    BY <1>6, <1>7 DEF EditLog, Tried

\* The commit of an edit.
LEMMA EditCommitPooled ==
  ASSUME Core, EditsOwn, NEW e \in Edits, Only(e), EditCommit(e)
  PROVE  Pooled(e)
  <1> PICK c : c = conn[e]
    OBVIOUS
  <1>1. e \in Requests /\ EditRow(e) \in Rows
    BY Kinds, RowsIn
  <1>2. pc[e] = "logged"
    BY DEF EditCommit
  <1>3. /\ c \in Conns
        /\ \A p \in Requests \ {e} : conn[p] = c => p \in shared'
    BY <1>1, <1>2, WorkingHas DEF Working
  <1>4. CASE Commit(c)
    <2>1. Store' /\ Flushed(c) /\ ~tx'[c].open
      BY <1>3, <1>4, CommitDoes DEF Core
    <2>2. e \in shared' \/ db'[EditRow(e)] # None
      <3>1. CASE e \in shared
        BY <3>1 DEF Only
      <3>2. CASE e \notin shared
        <4>1. EditRow(e) \in Writes(c)
          BY <1>2, <3>2 DEF EditsOwn, EditOwns
        <4>2. db'[EditRow(e)] = Wrote(c, EditRow(e)) /\ Wrote(c, EditRow(e)) \in Bodies
          BY <1>1, <1>3, <2>1, <4>1 DEF Flushed, Cur, Core, Lawful, OtherWrites
        <4> QED
          BY <4>2, NamesAssumption DEF Bodies, None, First, NamesAssumption
      <3> QED
        BY <3>1, <3>2
    <2>3. Stays(c)
      BY <1>1, StaysAt
    <2> QED
      BY <1>1, <1>3, <2>1, <2>2, <2>3, Kinds, EndPooled
  <1>5. CASE UNCHANGED <<db, tx, conn>>
    BY <1>1, <1>5, QuietPooled
  <1> QED
    BY <1>4, <1>5 DEF EditCommit

\* A recall.
LEMMA RecallPooled ==
  ASSUME Core, NEW q \in Recalls, Only(q), Recall(q)
  PROVE  Pooled(q)
  <1>1. q \in Requests /\ On(q) \in Msgs
    BY Kinds
  <1>2. conn' = conn
    BY DEF Recall
  <1>3. Stays(None)
    BY <1>1, <1>2, StaysNone
  <1>4. PICK c \in Conns :
          /\ Acquire(q, c) /\ Unlocked(c, Row(On(q)))
          /\ \/ Write(c, Row(On(q)), [Current(c)[Row(On(q))] EXCEPT !.recalled = TRUE])
             \/ UNCHANGED <<db, tx>>
    BY DEF Recall
  <1>5. \A p \in Requests : conn[p] = c => p \in shared'
    BY <1>1, <1>4, Acquired DEF Core
  <1> DEFINE row == Cur(c, Row(On(q)))  v == [row EXCEPT !.recalled = TRUE]
  <1>6. Good(On(q), row) /\ Current(c)[Row(On(q))] = row
    BY <1>1, CurGood DEF Core
  <1> HIDE DEF row
  <1>7. Good(On(q), v) /\ v.body = row.body /\ v.recalled
    BY <1>6 DEF Good, MessageRows
  <1>8. Succeeds(v, row)
    BY <1>7 DEF Succeeds
  <1> HIDE DEF v
  <1>9. CASE Write(c, Row(On(q)), v)
    BY <1>1, <1>3, <1>4, <1>5, <1>7, <1>8, <1>9, RowPooled DEF row
  <1>10. CASE UNCHANGED <<db, tx>>
    BY <1>1, <1>3, <1>10, StillPooled
  <1> QED
    BY <1>4, <1>6, <1>9, <1>10 DEF v

\* The row as the UPDATE of an ack leaves it.
LEMMA AckedGood ==
  ASSUME Store, Lawful, NEW c \in Conns, NEW m \in Msgs, Counts(m, Cur(c, Row(m))),
         NEW v, v = [Cur(c, Row(m)) EXCEPT !.delivered = Cur(c, Row(m)).delivered + 1]
  PROVE  /\ Good(m, v) /\ Succeeds(v, Cur(c, Row(m)))
         /\ v.body = Cur(c, Row(m)).body /\ v.recalled = Cur(c, Row(m)).recalled
         /\ v.delivered = Cur(c, Row(m)).delivered + 1
  <1> DEFINE row == Cur(c, Row(m))
  <1>1. Good(m, row) /\ Counts(m, row) /\ v = [row EXCEPT !.delivered = row.delivered + 1]
    BY CurGood
  <1> HIDE DEF row
  <1>2. /\ v \in MessageRows /\ v.body = row.body /\ v.original = row.original
        /\ v.recalled = row.recalled /\ v.delivered = row.delivered + 1
    <2>1. row \in MessageRows /\ v = [row EXCEPT !.delivered = row.delivered + 1]
      BY <1>1 DEF Good
    <2>2. row.delivered \in Nat /\ row.delivered + 1 \in Nat
      BY <2>1 DEF MessageRows
    <2> QED
      BY <2>1, <2>2 DEF MessageRows
  <1>3. m \in Private => v.delivered = 1
    <2>1. m \in Private => row.delivered = 0
      BY <1>1 DEF Counts
    <2> QED
      BY <1>2, <2>1
  <1>4. Good(m, v)
    <2>1. 1 <= 1
      OBVIOUS
    <2> QED
      BY <1>1, <1>2, <1>3, <2>1 DEF Good
  <1>5. Succeeds(v, row)
    BY <1>2 DEF Succeeds
  <1> QED
    BY <1>2, <1>4, <1>5 DEF row

\* The UPDATE of an ack.
LEMMA AckUpdatePooled ==
  ASSUME Core, NEW a \in Acks, Only(a), AckUpdate(a)
  PROVE  Pooled(a)
  <1>1. a \in Requests /\ On(a) \in Msgs
    BY Kinds
  <1>2. Stays(None)
    BY <1>1, StaysNone
  <1>3. PICK c \in Conns :
          /\ Acquire(a, c) /\ Unlocked(c, Row(On(a)))
          /\ \/ /\ Counts(On(a), Current(c)[Row(On(a))])
                /\ Write(c, Row(On(a)), [Current(c)[Row(On(a))] EXCEPT
                                           !.delivered = Current(c)[Row(On(a))].delivered + 1])
             \/ UNCHANGED <<db, tx>>
    BY DEF AckUpdate
  <1>4. \A p \in Requests : conn[p] = c => p \in shared'
    BY <1>1, <1>3, Acquired DEF Core
  <1>5. Current(c)[Row(On(a))] = Cur(c, Row(On(a)))
    BY <1>1, CurGood DEF Core
  <1>6. CASE /\ Counts(On(a), Cur(c, Row(On(a))))
             /\ Write(c, Row(On(a)), [Cur(c, Row(On(a))) EXCEPT
                                        !.delivered = Cur(c, Row(On(a))).delivered + 1])
    <2> PICK v : v = [Cur(c, Row(On(a))) EXCEPT !.delivered = Cur(c, Row(On(a))).delivered + 1]
      OBVIOUS
    <2>1. Write(c, Row(On(a)), v)
      BY <1>6
    <2>2. Good(On(a), v) /\ Succeeds(v, Cur(c, Row(On(a)))) /\ v.body = Cur(c, Row(On(a))).body
      BY <1>1, <1>6, AckedGood DEF Core
    <2> QED
      BY <1>1, <1>2, <1>3, <1>4, <2>1, <2>2, RowPooled
  <1>7. CASE UNCHANGED <<db, tx>>
    BY <1>1, <1>2, <1>7, StillPooled
  <1> QED
    BY <1>3, <1>5, <1>6, <1>7

\* The rows of a save.
LEMMA SaveInsertPooled ==
  ASSUME Core, NEW s \in Saves, Only(s), SaveInsert(s)
  PROVE  Pooled(s)
  <1> PICK c : c = conn[s]
    OBVIOUS
  <1>1. /\ s \in Requests /\ SaveRow(s) \in Rows /\ OutboxRow(s) \in Rows
        /\ SaveRow(s) \in Mine(s) /\ OutboxRow(s) \in Mine(s)
    BY Kinds, RowsIn DEF Mine
  <1>2. pc[s] \in Working /\ conn'[s] = conn[s]
    BY DEF SaveInsert, Working
  <1>3. c \in Conns /\ \A p \in Requests \ {s} : conn[p] = c => p \in shared'
    BY <1>1, <1>2, WorkingHas
  <1>4. Stays(None)
    BY <1>1, <1>2, StaysNone
  <1>5. Proper(SaveRow(s), TRUE) /\ Proper(OutboxRow(s), TRUE)
    BY RowsApart DEF Proper
  <1>6. Write(c, SaveRow(s), TRUE) \/ Write(c, OutboxRow(s), TRUE) \/ UNCHANGED <<db, tx>>
    BY DEF SaveInsert, Tried
  <1>7. CASE UNCHANGED <<db, tx>>
    BY <1>1, <1>4, <1>7, StillPooled
  <1> QED
    BY <1>1, <1>3, <1>4, <1>5, <1>6, <1>7, OtherPooled

\* The commit of a save.
LEMMA SaveCommitPooled ==
  ASSUME Core, NEW s \in Saves, Only(s), SaveCommit(s)
  PROVE  Pooled(s)
  <1> PICK c : c = conn[s]
    OBVIOUS
  <1>1. s \in Requests
    BY Kinds
  <1>2. pc[s] = "logged"
    BY DEF SaveCommit
  <1>3. /\ c \in Conns
        /\ \A p \in Requests \ {s} : conn[p] = c => p \in shared'
    BY <1>1, <1>2, WorkingHas DEF Working
  <1>4. CASE Commit(c)
    <2>1. Store' /\ Flushed(c) /\ ~tx'[c].open
      BY <1>3, <1>4, CommitDoes DEF Core
    <2>2. Stays(c)
      BY <1>1, StaysAt
    <2>3. \A e \in Edits : conn[e] = c => e \in shared'
      BY <1>3, Kinds
    <2> QED
      BY <1>1, <1>3, <2>1, <2>2, <2>3, EndPooled
  <1>5. CASE UNCHANGED <<db, tx, conn>>
    BY <1>1, <1>5, QuietPooled
  <1> QED
    BY <1>4, <1>5 DEF SaveCommit

\* The statement of a toggle.
LEMMA ToggleWritePooled ==
  ASSUME Core, NEW t \in Toggles, Only(t), ToggleWrite(t)
  PROVE  Pooled(t)
  <1> PICK c : c = conn[t]
    OBVIOUS
  <1>1. /\ t \in Requests /\ On(t) \in Msgs
        /\ Reaction(On(t)) \in Rows /\ Reaction(On(t)) \in Mine(t)
    BY Kinds, RowsIn DEF Mine
  <1>2. pc[t] = "read"
    BY DEF ToggleWrite
  <1>3. c \in Conns /\ \A p \in Requests \ {t} : conn[p] = c => p \in shared'
    BY <1>1, <1>2, WorkingHas DEF Working
  <1>4. Stays(None)
    BY <1>1, StaysNone
  <1>5. Proper(Reaction(On(t)), ~read[t])
    BY RowsApart DEF Proper
  <1>6. CASE Write(c, Reaction(On(t)), ~read[t])
    BY <1>1, <1>3, <1>4, <1>5, <1>6, OtherPooled
  <1>7. CASE UNCHANGED <<db, tx>>
    BY <1>1, <1>4, <1>7, StillPooled
  <1> QED
    BY <1>6, <1>7 DEF ToggleWrite

-------------------------------------------------------------------------------
(* What an edit and a save own, as long as they share with nobody.         *)

\* A step of q does not take anything from another request.
LEMMA OthersOwn ==
  ASSUME Core, EditsOwn, SavesOwn, NEW q \in Requests, Only(q), Touches(q)
  PROVE  /\ \A e \in Edits \ shared' : e # q => EditOwns(e)'
         /\ \A s \in Saves \ shared' : s # q => SaveOwns(s)'
  <1>1. ASSUME NEW p \in Requests, p # q, p \notin shared'
        PROVE  /\ p \notin shared /\ pc'[p] = pc[p] /\ conn'[p] = conn[p]
               /\ p \in doubt' <=> p \in doubt
               /\ pc[p] \in Working => conn[p] \in Conns /\ tx'[conn[p]] = tx[conn[p]]
               /\ \A x \in Rows : x \notin Mine(q)
                                  /\ (\A c \in Conns : x \in Writes(c) => conn[p] = c) =>
                    /\ db'[x] = db[x]
                    /\ \A c \in Conns : x \in Writes(c)' => conn[p] = c
    <2>1. /\ p \notin shared /\ pc'[p] = pc[p] /\ conn'[p] = conn[p]
          /\ p \in doubt' <=> p \in doubt
      BY <1>1 DEF Only
    <2>2. pc[p] \in Working => conn[p] \in Conns
      BY <1>1, HasConnection DEF Core
    <2>3. CASE UNCHANGED <<db, tx>>
      BY <2>1, <2>2, <2>3 DEF Writes
    <2>4. ASSUME NEW c \in Conns, TouchesAt(q, c)
          PROVE  /\ pc[p] \in Working => tx'[conn[p]] = tx[conn[p]]
                 /\ \A x \in Rows : x \notin Mine(q)
                                    /\ (\A d \in Conns : x \in Writes(d) => conn[p] = d) =>
                      /\ db'[x] = db[x]
                      /\ \A d \in Conns : x \in Writes(d)' => conn[p] = d
      <3>1. conn[p] # c
        BY <1>1, <2>4 DEF TouchesAt
      <3>2. pc[p] \in Working => tx'[conn[p]] = tx[conn[p]]
        BY <2>2, <2>4, <3>1 DEF TouchesAt
      <3>3. ASSUME NEW x \in Rows, x \notin Mine(q),
                   \A d \in Conns : x \in Writes(d) => conn[p] = d
            PROVE  /\ db'[x] = db[x]
                   /\ \A d \in Conns : x \in Writes(d)' => conn[p] = d
        <4>1. x \notin Writes(c)
          BY <3>1, <3>3
        <4>2. x \notin Writes(c)' /\ db'[x] = db[x]
          BY <2>4, <3>3, <4>1 DEF TouchesAt
        <4>3. \A d \in Conns \ {c} : Writes(d)' = Writes(d)
          BY <2>4 DEF TouchesAt, Writes
        <4> QED
          BY <3>3, <4>2, <4>3
      <3> QED
        BY <3>2, <3>3
    <2> QED
      BY <2>1, <2>2, <2>3, <2>4 DEF Touches
  <1>2. ASSUME NEW e \in Edits, e # q, e \notin shared'
        PROVE  EditOwns(e)'
    <2>1. e \in Requests /\ EditRow(e) \in Rows /\ EditRow(e) \notin Mine(q)
      BY <1>2, Kinds, RowsIn, RowsApart DEF Mine
    <2>2. /\ e \notin shared /\ pc'[e] = pc[e] /\ conn'[e] = conn[e]
          /\ e \in doubt' <=> e \in doubt
          /\ pc[e] \in Working => conn[e] \in Conns /\ tx'[conn[e]] = tx[conn[e]]
      BY <1>1, <1>2, <2>1
    <2>3. EditOwns(e)
      BY <1>2, <2>2 DEF EditsOwn
    <2>4. /\ db'[EditRow(e)] = db[EditRow(e)]
          /\ \A c \in Conns : EditRow(e) \in Writes(c)' => conn[e] = c
      BY <1>1, <1>2, <2>1, <2>3 DEF EditOwns
    <2> QED
      BY <2>2, <2>3, <2>4 DEF EditOwns, Answered, Working, Writes, Wrote
  <1>3. ASSUME NEW s \in Saves, s # q, s \notin shared'
        PROVE  SaveOwns(s)'
    <2>1. /\ s \in Requests /\ SaveRow(s) \in Rows /\ OutboxRow(s) \in Rows
          /\ SaveRow(s) \notin Mine(q) /\ OutboxRow(s) \notin Mine(q)
      BY <1>3, Kinds, RowsIn, RowsApart DEF Mine
    <2>2. /\ s \notin shared /\ pc'[s] = pc[s] /\ conn'[s] = conn[s]
          /\ s \in doubt' <=> s \in doubt
          /\ pc[s] \in Working => conn[s] \in Conns /\ tx'[conn[s]] = tx[conn[s]]
      BY <1>1, <1>3, <2>1
    <2>3. SaveOwns(s)
      BY <1>3, <2>2 DEF SavesOwn
    <2>4. /\ db'[SaveRow(s)] = db[SaveRow(s)]
          /\ \A c \in Conns : SaveRow(s) \in Writes(c)' => conn[s] = c
      BY <1>1, <1>3, <2>1, <2>3 DEF SaveOwns
    <2>5. /\ db'[OutboxRow(s)] = db[OutboxRow(s)]
          /\ \A c \in Conns : OutboxRow(s) \in Writes(c)' => conn[s] = c
      BY <1>1, <1>3, <2>1, <2>3 DEF SaveOwns
    <2> QED
      BY <2>2, <2>3, <2>4, <2>5 DEF SaveOwns, Working, Writes, Wrote
  <1> QED
    BY <1>2, <1>3

\* What the others remember is still true, and q keeps what it has read.
LEMMA OthersRemember ==
  ASSUME Core, Remembered, NEW q \in Requests, Only(q), Onward,
         \A e \in Edits : read'[e] = read[e],
         q \in Edits => /\ pc'[q] # "read"
                        /\ pc'[q] \in {"updated", "logged"} => pc[q] \in {"read", "updated", "logged"}
  PROVE  Remembered'
  <1>1. \A e \in Edits : e \in Requests /\ On(e) \in Msgs
    BY Kinds
  <1> QED
    BY <1>1 DEF Remembered, Only, Onward, Succeeds

\* An edit that has no connection has written nothing that is not committed.
LEMMA EditWithout ==
  ASSUME Core, EditsOwn, NEW e \in Edits, e \notin shared, conn[e] = None
  PROVE  \A c \in Conns : EditRow(e) \notin Writes(c)
  BY NamesAssumption DEF EditsOwn, EditOwns, None, NamesAssumption

\* A step of e that is not a statement, and neither an answer nor the end of one.
LEMMA EditOwnsStill ==
  ASSUME Core, EditsOwn, NEW e \in Edits, e \notin shared, UNCHANGED <<db, tx>>, conn'[e] = conn[e],
         pc'[e] \notin Working, Answered(e)' <=> Answered(e), e \in doubt' <=> e \in doubt
  PROVE  EditOwns(e)'
  <1>1. EditOwns(e)
    BY DEF EditsOwn
  <1> QED
    BY <1>1 DEF EditOwns, Working, Writes

\* The beginning of an edit.
LEMMA EditBeginOwns ==
  ASSUME Core, EditsOwn, NEW e \in Edits, Only(e), EditBegin(e), e \notin shared'
  PROVE  EditOwns(e)'
  <1>1. e \in Requests /\ EditRow(e) \in Rows /\ e \notin shared
    BY Kinds, RowsIn DEF Only
  <1>2. PICK c \in Conns : Begin(c) /\ conn' = [conn EXCEPT ![e] = c]
    BY DEF EditBegin
  <1>3. Store' /\ Flushed(c) /\ tx'[c].open
    BY <1>2, BeginDoes DEF Core
  <1>4. pc[e] \in {"new", "again"} /\ conn[e] = None
    BY <1>1, HasConnection DEF Core, EditBegin, Working
  <1>5. pc'[e] \in {"read", "unwound"} /\ conn'[e] = c
    BY <1>1, <1>2 DEF Core, Plain, EditBegin, Go
  <1>6. \A d \in Conns : EditRow(e) \notin Writes(d)
    BY <1>1, <1>4, EditWithout
  <1>7. \A d \in Conns : EditRow(e) \notin Writes(d)'
    BY <1>3, <1>6 DEF Flushed, Ended, Writes
  <1>8. db'[EditRow(e)] = db[EditRow(e)] /\ (db[EditRow(e)] # None <=> e \in doubt)
    BY <1>1, <1>3, <1>4, <1>6 DEF Flushed, Cur, EditsOwn, EditOwns, Answered
  <1>9. doubt' = doubt
    BY DEF EditBegin
  <1> QED
    BY <1>3, <1>5, <1>7, <1>8, <1>9 DEF EditOwns, Answered

\* The UPDATE.
LEMMA EditUpdateOwns ==
  ASSUME Core, Remembered, EditsOwn, NEW e \in Edits, Only(e), EditUpdate(e), e \notin shared'
  PROVE  EditOwns(e)'
  <1> PICK c : c = conn[e]
    OBVIOUS
  <1>1. e \in Requests /\ On(e) \in Msgs /\ EditRow(e) \in Rows /\ Row(On(e)) \in Rows
        /\ e \notin shared
    BY Kinds, RowsIn DEF Only
  <1>2. pc[e] = "read" /\ conn'[e] = c /\ doubt' = doubt
    BY DEF EditUpdate, ghosts
  <1>3. c \in Conns
    BY <1>1, <1>2, WorkingHas DEF Working
  <1>4. EditOwns(e)
    BY <1>1 DEF EditsOwn
  <1>5. Current(c)[Row(On(e))] = Cur(c, Row(On(e)))
    BY <1>1, <1>3, CurGood DEF Core
  <1>6. CASE /\ ~Cur(c, Row(On(e))).recalled
             /\ Write(c, Row(On(e)), Edited(e, Cur(c, Row(On(e)))))
             /\ Go(e, "updated") \/ Go(e, "unwound")
    <2> DEFINE v == Edited(e, Cur(c, Row(On(e))))
    <2>1. v.body = e
      BY <1>2, <1>3, <1>6, EditedGood
    <2> HIDE DEF v
    <2>2. Write(c, Row(On(e)), v)
      BY <1>6 DEF v
    <2>3. Kept(c, Row(On(e)), v)
      BY <1>1, <1>2, <1>3, <1>4, <2>2, WriteDoes DEF Core, Stored, EditOwns, Working
    <2>4. pc'[e] \in {"updated", "unwound"}
      BY <1>1, <1>6 DEF Go, Core, Plain
    <2>5. \A d \in Conns : EditRow(e) \in Writes(d)' => EditRow(e) \in Writes(d)
      BY <2>3, RowsApart DEF Kept, Writes
    <2> QED
      BY <1>2, <1>4, <2>1, <2>3, <2>4, <2>5 DEF EditOwns, Kept, Answered
  <1>7. CASE UNCHANGED <<db, tx>> /\ Go(e, "unwound")
    <2>1. pc'[e] = "unwound"
      BY <1>1, <1>7 DEF Go, Core, Plain
    <2> QED
      BY <1>1, <1>2, <1>7, <2>1, EditOwnsStill DEF Working, Answered
  <1> QED
    BY <1>5, <1>6, <1>7 DEF EditUpdate, Unwind, Tried

\* The row in message_edits.
LEMMA EditLogOwns ==
  ASSUME Core, EditsOwn, NEW e \in Edits, Only(e), EditLog(e), e \notin shared'
  PROVE  EditOwns(e)'
  <1> PICK c : c = conn[e]
    OBVIOUS
  <1>1. e \in Requests /\ EditRow(e) \in Rows /\ e \notin shared
    BY Kinds, RowsIn DEF Only
  <1>2. pc[e] = "updated" /\ conn'[e] = c /\ doubt' = doubt
    BY DEF EditLog, ghosts
  <1>3. c \in Conns
    BY <1>1, <1>2, WorkingHas DEF Working
  <1>4. EditOwns(e)
    BY <1>1 DEF EditsOwn
  <1>5. CASE Write(c, EditRow(e), read[e].old) /\ (Go(e, "logged") \/ Go(e, "unwound"))
    <2>1. Kept(c, EditRow(e), read[e].old)
      BY <1>1, <1>2, <1>3, <1>4, <1>5, WriteDoes DEF Core, Stored, EditOwns, Working
    <2>2. pc'[e] \in {"logged", "unwound"}
      BY <1>1, <1>5 DEF Go, Core, Plain
    <2>3. Row(On(e)) \in Writes(c)' /\ Wrote(c, Row(On(e)))' = Wrote(c, Row(On(e)))
      BY <1>2, <1>4, <2>1, RowsApart DEF Kept, EditOwns
    <2>4. \A d \in Conns \ {c} : EditRow(e) \notin Writes(d)'
      BY <1>4, <2>1 DEF Kept, EditOwns, Writes
    <2> QED
      BY <1>2, <1>4, <2>1, <2>2, <2>3, <2>4 DEF EditOwns, Kept, Answered
  <1>6. CASE UNCHANGED <<db, tx>> /\ Go(e, "unwound")
    <2>1. pc'[e] = "unwound"
      BY <1>1, <1>6 DEF Go, Core, Plain
    <2> QED
      BY <1>1, <1>2, <1>6, <2>1, EditOwnsStill DEF Working, Answered
  <1> QED
    BY <1>5, <1>6 DEF EditLog, Unwind, Tried

\* The commit.
LEMMA EditCommitOwns ==
  ASSUME Core, EditsOwn, NEW e \in Edits, Only(e), EditCommit(e), e \notin shared'
  PROVE  EditOwns(e)'
  <1> PICK c : c = conn[e]
    OBVIOUS
  <1>1. e \in Requests /\ EditRow(e) \in Rows /\ e \notin shared
    BY Kinds, RowsIn DEF Only
  <1>2. pc[e] = "logged"
    BY DEF EditCommit
  <1>3. c \in Conns
    BY <1>1, <1>2, WorkingHas DEF Working
  <1>4. EditOwns(e)
    BY <1>1 DEF EditsOwn
  <1>5. CASE Commit(c) /\ (Go(e, "saved") \/ (Go(e, "unwound") /\ Doubt(e) /\ conn' = conn))
    <2>1. Flushed(c)
      BY <1>3, <1>5, CommitDoes DEF Core
    <2>2. EditRow(e) \in Writes(c)
      BY <1>2, <1>4 DEF EditOwns
    <2>3. db'[EditRow(e)] = Wrote(c, EditRow(e)) /\ Wrote(c, EditRow(e)) \in Bodies
      BY <1>1, <1>3, <2>1, <2>2 DEF Flushed, Cur, Core, Lawful, OtherWrites
    <2>4. db'[EditRow(e)] # None
      BY <2>3, NamesAssumption DEF Bodies, None, First, NamesAssumption
    <2>5. \A d \in Conns : EditRow(e) \notin Writes(d)'
      BY <1>4, <2>1 DEF Flushed, Ended, EditOwns, Writes
    <2>6. pc'[e] = "saved" \/ (pc'[e] = "unwound" /\ e \in doubt')
      BY <1>1, <1>5 DEF Go, Doubt, Core, Plain
    <2> QED
      BY <2>4, <2>5, <2>6 DEF EditOwns, Answered, Working
  <1>6. CASE UNCHANGED <<db, tx, conn, doubt>> /\ Go(e, "unwound")
    <2>1. pc'[e] = "unwound"
      BY <1>1, <1>6 DEF Go, Core, Plain
    <2> QED
      BY <1>1, <1>2, <1>6, <2>1, EditOwnsStill DEF Working, Answered
  <1> QED
    BY <1>5, <1>6 DEF EditCommit, Unwind

\* The guard of an edit that failed.
LEMMA EditEndOwns ==
  ASSUME Core, EditsOwn, NEW e \in Edits, Only(e), GuardEnds(e), e \notin shared'
  PROVE  EditOwns(e)'
  <1> PICK c : c = conn[e]
    OBVIOUS
  <1>1. e \in Requests /\ EditRow(e) \in Rows /\ e \notin shared
    BY Kinds, RowsIn DEF Only
  <1>2. pc[e] = "unwound" /\ c \in Conns
    BY <1>1, HasConnection DEF GuardEnds, Core, Working
  <1>3. EditOwns(e)
    BY <1>1 DEF EditsOwn
  <1>4. Discarded(c)
    BY <1>2, RollbackDoes DEF Core, GuardEnds
  <1>5. \A d \in Conns : EditRow(e) \notin Writes(d)'
    BY <1>3, <1>4 DEF Discarded, Ended, EditOwns, Writes
  <1>6. pc'[e] \in {"again", "failed"} /\ doubt' = doubt
    BY <1>1 DEF GuardEnds, GiveUp, Go, Core, Plain, ghosts
  <1> QED
    BY <1>2, <1>3, <1>4, <1>5, <1>6 DEF Discarded, EditOwns, Answered, Working

\* A save that has no connection has written nothing that is not committed.
LEMMA SaveWithout ==
  ASSUME Core, SavesOwn, NEW s \in Saves, s \notin shared, conn[s] = None
  PROVE  \A c \in Conns : SaveRow(s) \notin Writes(c) /\ OutboxRow(s) \notin Writes(c)
  BY NamesAssumption DEF SavesOwn, SaveOwns, None, NamesAssumption

\* A save that stops, before or after its statements.
LEMMA SaveOwnsStill ==
  ASSUME Core, SavesOwn, NEW s \in Saves, s \notin shared, UNCHANGED <<db, tx>>, conn'[s] = conn[s],
         pc'[s] \notin Working, pc[s] # "done", pc'[s] # "done", s \in doubt' <=> s \in doubt
  PROVE  SaveOwns(s)'
  <1>1. SaveOwns(s)
    BY DEF SavesOwn
  <1> QED
    BY <1>1 DEF SaveOwns, Working, Writes

\* The beginning of a save.
LEMMA SaveBeginOwns ==
  ASSUME Core, SavesOwn, NEW s \in Saves, Only(s), SaveBegin(s), s \notin shared'
  PROVE  SaveOwns(s)'
  <1>1. s \in Requests /\ SaveRow(s) \in Rows /\ OutboxRow(s) \in Rows /\ s \notin shared
    BY Kinds, RowsIn DEF Only
  <1>2. PICK c \in Conns : Begin(c) /\ conn' = [conn EXCEPT ![s] = c]
    BY DEF SaveBegin
  <1>3. Store' /\ Flushed(c) /\ tx'[c].open
    BY <1>2, BeginDoes DEF Core
  <1>4. pc[s] = "new" /\ conn[s] = None
    BY <1>1, HasConnection DEF Core, SaveBegin, Working
  <1>5. pc'[s] = "open" /\ conn'[s] = c
    BY <1>1, <1>2 DEF Core, Plain, SaveBegin, Go
  <1>6. \A d \in Conns : SaveRow(s) \notin Writes(d) /\ OutboxRow(s) \notin Writes(d)
    BY <1>1, <1>4, SaveWithout
  <1>7. \A d \in Conns : SaveRow(s) \notin Writes(d)' /\ OutboxRow(s) \notin Writes(d)'
    BY <1>3, <1>6 DEF Flushed, Ended, Writes
  <1>8. /\ db'[SaveRow(s)] = db[SaveRow(s)] /\ (db[SaveRow(s)] <=> s \in doubt)
        /\ db'[OutboxRow(s)] = db[OutboxRow(s)] /\ (db[OutboxRow(s)] <=> s \in doubt)
    BY <1>1, <1>3, <1>4, <1>6 DEF Flushed, Cur, SavesOwn, SaveOwns
  <1>9. doubt' = doubt
    BY DEF SaveBegin
  <1> QED
    BY <1>3, <1>5, <1>7, <1>8, <1>9 DEF SaveOwns

\* The two INSERTs.
LEMMA SaveInsertOwns ==
  ASSUME Core, SavesOwn, NEW s \in Saves, Only(s), SaveInsert(s), s \notin shared'
  PROVE  SaveOwns(s)'
  <1> PICK c : c = conn[s]
    OBVIOUS
  <1>1. s \in Requests /\ SaveRow(s) \in Rows /\ OutboxRow(s) \in Rows /\ s \notin shared
    BY Kinds, RowsIn DEF Only
  <1>2. pc[s] \in {"open", "updated", "spoiled"} /\ conn'[s] = c /\ doubt' = doubt
    BY DEF SaveInsert, ghosts
  <1>3. c \in Conns
    BY <1>1, <1>2, WorkingHas DEF Working
  <1>4. SaveOwns(s) /\ tx[c].open
    BY <1>1, <1>2 DEF SavesOwn, SaveOwns, Working
  <1>5. CASE pc[s] = "open" /\ Write(c, SaveRow(s), TRUE) /\ (Go(s, "updated") \/ Go(s, "spoiled"))
    <2>1. Kept(c, SaveRow(s), TRUE)
      BY <1>1, <1>3, <1>4, <1>5, WriteDoes DEF Core, Stored
    <2>2. pc'[s] \in {"updated", "spoiled"}
      BY <1>1, <1>5 DEF Go, Core, Plain
    <2>3. \A d \in Conns \ {c} : SaveRow(s) \notin Writes(d)' /\ OutboxRow(s) \notin Writes(d)'
      BY <1>4, <2>1 DEF Kept, SaveOwns, Writes
    <2> QED
      BY <1>2, <1>4, <1>5, <2>1, <2>2, <2>3 DEF SaveOwns, Kept
  <1>6. CASE /\ Write(c, OutboxRow(s), TRUE)
             /\ (pc[s] = "updated" /\ Go(s, "logged")) \/ (pc[s] # "open" /\ Go(s, "unwound"))
    <2>1. Kept(c, OutboxRow(s), TRUE)
      BY <1>1, <1>3, <1>4, <1>6, WriteDoes DEF Core, Stored
    <2>2. (pc[s] = "updated" /\ pc'[s] = "logged") \/ pc'[s] = "unwound"
      BY <1>1, <1>6 DEF Go, Core, Plain
    <2>3. \A d \in Conns \ {c} : SaveRow(s) \notin Writes(d)' /\ OutboxRow(s) \notin Writes(d)'
      BY <1>4, <2>1 DEF Kept, SaveOwns, Writes
    <2>4. pc[s] = "updated" => SaveRow(s) \in Writes(c)'
      BY <1>4, <2>1 DEF Kept, SaveOwns
    <2>5. /\ db'[SaveRow(s)] <=> s \in doubt'
          /\ db'[OutboxRow(s)] <=> s \in doubt'
      BY <1>2, <1>4, <2>1 DEF SaveOwns, Kept
    <2> QED
      BY <1>2, <2>1, <2>2, <2>3, <2>4, <2>5 DEF SaveOwns, Kept, Working
  <1>7. CASE UNCHANGED <<db, tx>> /\ (Go(s, "unwound") \/ Go(s, "spoiled"))
    <2>1. pc'[s] \in {"unwound", "spoiled"}
      BY <1>1, <1>7 DEF Go, Core, Plain
    <2> QED
      BY <1>2, <1>4, <1>7, <2>1 DEF SaveOwns, Working, Writes
  <1> QED
    BY <1>5, <1>6, <1>7 DEF SaveInsert, Unwind, Tried

\* The commit: both rows, or as the guard has it, none.
LEMMA SaveCommitOwns ==
  ASSUME Core, SavesOwn, NEW s \in Saves, Only(s), SaveCommit(s), s \notin shared'
  PROVE  SaveOwns(s)'
  <1> PICK c : c = conn[s]
    OBVIOUS
  <1>1. s \in Requests /\ SaveRow(s) \in Rows /\ OutboxRow(s) \in Rows /\ s \notin shared
    BY Kinds, RowsIn DEF Only
  <1>2. pc[s] = "logged"
    BY DEF SaveCommit
  <1>3. c \in Conns
    BY <1>1, <1>2, WorkingHas DEF Working
  <1>4. SaveOwns(s) /\ SaveRow(s) \in Writes(c) /\ OutboxRow(s) \in Writes(c)
    BY <1>1, <1>2 DEF SavesOwn, SaveOwns
  <1>5. CASE Commit(c) /\ (Go(s, "done") \/ (Go(s, "unwound") /\ Doubt(s)))
    <2>1. Flushed(c)
      BY <1>3, <1>5, CommitDoes DEF Core
    <2>2. db'[SaveRow(s)] = TRUE /\ db'[OutboxRow(s)] = TRUE
      BY <1>1, <1>3, <1>4, <2>1 DEF Flushed, Cur, Core, Lawful, OtherWrites
    <2>3. \A d \in Conns : SaveRow(s) \notin Writes(d)' /\ OutboxRow(s) \notin Writes(d)'
      BY <1>4, <2>1 DEF Flushed, Ended, SaveOwns, Writes
    <2>4. pc'[s] = "done" \/ (pc'[s] = "unwound" /\ s \in doubt')
      BY <1>1, <1>5 DEF Go, Doubt, Core, Plain
    <2> QED
      BY <2>2, <2>3, <2>4 DEF SaveOwns, Working
  <1>6. CASE UNCHANGED <<db, tx, doubt, conn>> /\ Go(s, "unwound")
    <2>1. pc'[s] = "unwound"
      BY <1>1, <1>6 DEF Go, Core, Plain
    <2> QED
      BY <1>1, <1>2, <1>6, <2>1, SaveOwnsStill DEF Working
  <1> QED
    BY <1>5, <1>6 DEF SaveCommit, Unwind

\* The guard of a save that failed.
LEMMA SaveEndOwns ==
  ASSUME Core, SavesOwn, NEW s \in Saves, Only(s), GuardEnds(s), s \notin shared'
  PROVE  SaveOwns(s)'
  <1> PICK c : c = conn[s]
    OBVIOUS
  <1>1. s \in Requests /\ s \notin Edits /\ s \notin shared
    BY Kinds DEF Only
  <1>2. pc[s] = "unwound" /\ c \in Conns
    BY <1>1, HasConnection DEF GuardEnds, Core, Working
  <1>3. SaveOwns(s)
    BY <1>1 DEF SavesOwn
  <1>4. Discarded(c)
    BY <1>2, RollbackDoes DEF Core, GuardEnds
  <1>5. \A d \in Conns : SaveRow(s) \notin Writes(d)' /\ OutboxRow(s) \notin Writes(d)'
    BY <1>3, <1>4 DEF Discarded, Ended, SaveOwns, Writes
  <1>6. pc'[s] = "failed" /\ doubt' = doubt
    BY <1>1 DEF GuardEnds, GiveUp, Go, Core, Plain, ghosts
  <1> QED
    BY <1>2, <1>3, <1>4, <1>5, <1>6 DEF Discarded, SaveOwns, Working

-------------------------------------------------------------------------------
(* As long as no connection was shared.                                    *)

\* Whoever takes a connection then finds no transaction on it.
LEMMA FreeIsClosed ==
  ASSUME Core, NEW q \in Requests, NEW c \in Conns, Acquire(q, c), q \notin shared'
  PROVE  ~tx[c].open /\ Writes(c) = {} /\ \A x : Cur(c, x) = db[x]
  <1>1. \A p \in Requests : conn[p] # c
    BY Acquired DEF Core
  <1>2. ~tx[c].open
    BY <1>1, Kinds DEF Core, Transactions
  <1> QED
    BY <1>2 DEF Core, Store, Cur

\* And whoever works on one is the only one who has it.
LEMMA WorksAlone ==
  ASSUME Core, NEW q \in Requests, conn[q] # None, shared = {}
  PROVE  \A p \in Requests : conn[p] = conn[q] => p = q
  BY DEF Core, Connections

\* The bodies of messages, whether they are recalled, and the reactions stay.
Same ==
  \A m \in Msgs : /\ db'[Row(m)] = db[Row(m)]
                  /\ db'[Reaction(m)] = db[Reaction(m)]

\* A connection that the step does not touch.
LEMMA AwayAlone ==
  ASSUME NEW d \in Conns, NEW m \in Msgs, AloneAt(d, m), tx'[d] = tx[d],
         Row(m) \in Writes(d) => /\ db'[Row(m)].recalled = db[Row(m)].recalled
                                 /\ db'[Row(m)].delivered = db[Row(m)].delivered,
         \A e \in Edits : conn[e] = d => conn'[e] = d
  PROVE  AloneAt(d, m)'
  <1>1. Writes(d)' = Writes(d) /\ Wrote(d, Row(m))' = Wrote(d, Row(m))
    BY DEF Writes, Wrote
  <1> QED
    BY <1>1 DEF AloneAt

\* No statement.
LEMMA StillAlone ==
  ASSUME Alone, UNCHANGED <<db, tx>>, Stays(None)
  PROVE  Alone' /\ Same
  <1>1. \A e \in Edits, c \in Conns : conn[e] = c => conn'[e] = c
    BY NamesAssumption DEF Stays, None, NamesAssumption
  <1>2. shared' = {} => shared = {}
    BY DEF Stays
  <1> QED
    BY <1>1, <1>2, AwayAlone DEF Alone, Same

\* The end of a transaction that holds no message, or is rolled back.
LEMMA EndAlone ==
  ASSUME Core, Alone, NEW c \in Conns, Stays(c), shared' = {},
         \/ Discarded(c)
         \/ Flushed(c) /\ \A m \in Msgs : Row(m) \notin Writes(c)
  PROVE  Alone' /\ Same
  <1>1. \A d \in Conns, m \in Msgs : AloneAt(d, m)
    BY DEF Alone, Stays
  <1>2. Same
    BY <1>1, RowsIn DEF Same, Discarded, Flushed, Cur, AloneAt
  <1>3. Writes(c)' = {} /\ \A d \in Conns \ {c} : tx'[d] = tx[d]
    BY DEF Discarded, Flushed, Ended
  <1>4. \A e \in Edits, d \in Conns \ {c} : conn[e] = d => conn'[e] = d
    BY NamesAssumption DEF Stays, None, NamesAssumption
  <1>5. \A m \in Msgs : AloneAt(c, m)'
    BY <1>3 DEF AloneAt
  <1>6. \A d \in Conns \ {c}, m \in Msgs : AloneAt(d, m)'
    BY <1>1, <1>2, <1>3, <1>4, AwayAlone DEF Same
  <1> QED
    BY <1>2, <1>5, <1>6 DEF Alone

\* A statement of a transaction on a row that is neither a message nor a reaction.
LEMMA OtherAlone ==
  ASSUME Core, Alone, NEW c \in Conns, NEW r \in Rows, NEW v, Stays(None), shared' = {},
         Kept(c, r, v), \A m \in Msgs : r # Row(m) /\ r # Reaction(m)
  PROVE  Alone' /\ Same
  <1>1. \A d \in Conns, m \in Msgs : AloneAt(d, m)
    BY DEF Alone, Stays
  <1>2. \A e \in Edits, d \in Conns : conn[e] = d => conn'[e] = d
    BY NamesAssumption DEF Stays, None, NamesAssumption
  <1>3. db' = db
    BY DEF Kept
  <1>4. \A d \in Conns \ {c}, m \in Msgs : AloneAt(d, m)'
    BY <1>1, <1>2, <1>3, AwayAlone DEF Kept
  <1>5. ASSUME NEW m \in Msgs PROVE AloneAt(c, m)'
    <2>1. Row(m) \in Writes(c)' => Row(m) \in Writes(c) /\ Wrote(c, Row(m))' = Wrote(c, Row(m))
      BY DEF Kept
    <2>2. Reaction(m) \in Writes(c)' => Reaction(m) \in Writes(c)
      BY DEF Kept
    <2> QED
      BY <1>1, <1>2, <1>3, <2>1, <2>2 DEF AloneAt
  <1> QED
    BY <1>3, <1>4, <1>5 DEF Alone, Same

\* The UPDATE of an edit, which keeps what it does not set.
LEMMA UpdateAlone ==
  ASSUME Core, Alone, NEW e \in Edits, NEW c \in Conns, NEW v, Stays(None), shared' = {},
         conn[e] = c, Kept(c, Row(On(e)), v), v.body = e,
         v.recalled = Cur(c, Row(On(e))).recalled, v.delivered = Cur(c, Row(On(e))).delivered
  PROVE  Alone' /\ Same
  <1>1. \A d \in Conns, m \in Msgs : AloneAt(d, m)
    BY DEF Alone, Stays
  <1>2. \A b \in Edits, d \in Conns : conn[b] = d => conn'[b] = d
    BY NamesAssumption DEF Stays, None, NamesAssumption
  <1>3. db' = db /\ On(e) \in Msgs
    BY Kinds DEF Kept
  <1>4. \A d \in Conns \ {c}, m \in Msgs : AloneAt(d, m)'
    BY <1>1, <1>2, <1>3, AwayAlone DEF Kept
  <1>5. ASSUME NEW m \in Msgs, m # On(e) PROVE AloneAt(c, m)'
    <2>1. Row(m) \in Writes(c)' => Row(m) \in Writes(c) /\ Wrote(c, Row(m))' = Wrote(c, Row(m))
      BY <1>5, RowsApart DEF Kept
    <2>2. Reaction(m) \in Writes(c)' => Reaction(m) \in Writes(c)
      BY RowsApart DEF Kept
    <2> QED
      BY <1>1, <1>2, <1>3, <2>1, <2>2 DEF AloneAt
  <1>6. AloneAt(c, On(e))'
    <2>1. Wrote(c, Row(On(e)))' = v
      BY DEF Kept
    <2>2. Reaction(On(e)) \in Writes(c)' => Reaction(On(e)) \in Writes(c)
      BY RowsApart DEF Kept
    <2>3. v.recalled = db[Row(On(e))].recalled /\ v.delivered = db[Row(On(e))].delivered
      BY <1>1, <1>3 DEF AloneAt, Cur
    <2> QED
      BY <1>1, <1>2, <1>3, <2>1, <2>2, <2>3 DEF AloneAt
  <1> QED
    BY <1>3, <1>4, <1>5, <1>6 DEF Alone, Same

\* A statement that commits by itself, on a row that no transaction has written.
LEMMA StoredAlone ==
  ASSUME Core, Alone, NEW c \in Conns, NEW r \in Rows, NEW v, Stays(None), shared' = {},
         Stored(c, r, v), \A d \in Conns : r \notin Writes(d)
  PROVE  /\ Alone'
         /\ \A x \in Rows : x # r => db'[x] = db[x]
         /\ db'[r] = v
  <1>1. \A d \in Conns, m \in Msgs : AloneAt(d, m)
    BY DEF Alone, Stays
  <1>2. \A e \in Edits, d \in Conns : conn[e] = d => conn'[e] = d
    BY NamesAssumption DEF Stays, None, NamesAssumption
  <1>3. /\ \A x \in Rows : x # r => db'[x] = db[x]
        /\ db'[r] = v /\ tx' = tx
    BY DEF Stored
  <1>4. \A d \in Conns, m \in Msgs : Row(m) \in Writes(d) => db'[Row(m)] = db[Row(m)]
    BY <1>3, RowsIn
  <1>5. \A d \in Conns, m \in Msgs : AloneAt(d, m)'
    BY <1>1, <1>2, <1>3, <1>4, AwayAlone
  <1> QED
    BY <1>3, <1>5 DEF Alone

\* The commit of an edit: its body is in the database, and nothing else has changed
\* there.
LEMMA CommitAlone ==
  ASSUME Core, EditsOwn, Alone, NEW e \in Edits, NEW c \in Conns, Stays(c), shared' = {},
         conn[e] = c, pc[e] = "logged", Flushed(c)
  PROVE  /\ Alone'
         /\ db'[Row(On(e))].body = e
         /\ \A m \in Msgs : /\ m # On(e) => db'[Row(m)] = db[Row(m)]
                            /\ db'[Row(m)].recalled = db[Row(m)].recalled
                            /\ db'[Row(m)].delivered = db[Row(m)].delivered
                            /\ db'[Reaction(m)] = db[Reaction(m)]
  <1>1. shared = {} /\ \A d \in Conns, m \in Msgs : AloneAt(d, m)
    BY DEF Alone, Stays
  <1>2. e \in Requests /\ On(e) \in Msgs /\ c # None
    BY Kinds, NamesAssumption DEF None, NamesAssumption
  <1>3. \A b \in Edits : conn[b] = c => b = e
    BY <1>1, <1>2, WorksAlone, Kinds
  <1>4. \A m \in Msgs : Row(m) \in Writes(c) => m = On(e)
    BY <1>1, <1>3 DEF AloneAt
  <1>5. Row(On(e)) \in Writes(c) /\ Wrote(c, Row(On(e))).body = e
    BY <1>1 DEF EditsOwn, EditOwns
  <1>6. \A m \in Msgs : /\ m # On(e) => db'[Row(m)] = db[Row(m)]
                        /\ db'[Reaction(m)] = db[Reaction(m)]
    BY <1>1, <1>4, RowsIn DEF Flushed, Cur, AloneAt
  <1>7. db'[Row(On(e))] = Wrote(c, Row(On(e)))
    BY <1>2, <1>5, RowsIn DEF Flushed, Cur
  <1>8. /\ db'[Row(On(e))].body = e
        /\ db'[Row(On(e))].recalled = db[Row(On(e))].recalled
        /\ db'[Row(On(e))].delivered = db[Row(On(e))].delivered
    BY <1>1, <1>2, <1>5, <1>7 DEF AloneAt
  <1>9. Writes(c)' = {} /\ \A d \in Conns \ {c} : tx'[d] = tx[d]
    BY DEF Flushed, Ended
  <1>10. \A b \in Edits, d \in Conns \ {c} : conn[b] = d => conn'[b] = d
    BY NamesAssumption DEF Stays, None, NamesAssumption
  <1>11. \A m \in Msgs : AloneAt(c, m)'
    BY <1>9 DEF AloneAt
  <1>12. \A m \in Msgs : /\ db'[Row(m)].recalled = db[Row(m)].recalled
                         /\ db'[Row(m)].delivered = db[Row(m)].delivered
    BY <1>6, <1>8
  <1>13. \A d \in Conns \ {c}, m \in Msgs : AloneAt(d, m)'
    BY <1>1, <1>9, <1>10, <1>12, AwayAlone
  <1> QED
    BY <1>6, <1>8, <1>11, <1>12, <1>13 DEF Alone

\* A step that reports nothing leaves the reports as true as they were.
LEMMA ReportedSame ==
  ASSUME Reported, Onward, shared \subseteq shared',
         \A q \in Recalls \ shared' : Answered(q)' => Answered(q),
         \A a \in Acks : /\ a \in doubt' <=> a \in doubt
                         /\ pc'[a] = pc[a] \/ (pc[a] = "new" /\ pc'[a] # "updated"),
         shared' = {} => \A m \in Msgs : /\ told'[m] = told[m]
                                         /\ db'[Row(m)].delivered = db[Row(m)].delivered
  PROVE  Reported'
  <1>1. \A q \in Recalls \ shared' : Answered(q)' => db'[Row(On(q))].recalled
    <2>1. SUFFICES ASSUME NEW q \in Recalls \ shared', Answered(q)' PROVE db'[Row(On(q))].recalled
      OBVIOUS
    <2>2. On(q) \in Msgs /\ db[Row(On(q))].recalled
      BY <2>1, Kinds DEF Reported
    <2> QED
      BY <2>2 DEF Onward, Succeeds
  <1>2. ASSUME shared' = {}, NEW m \in Msgs PROVE Counted(m)'
    <2>1. Counted(m)
      BY <1>2 DEF Reported
    <2>2. AllHeard(m)' => AllHeard(m)
      BY DEF AllHeard, Heard
    <2>3. \A a \in Acks : pc'[a] = "updated" => pc[a] = "updated"
      OBVIOUS
    <2>4. told'[m] = told[m] /\ db'[Row(m)].delivered = db[Row(m)].delivered
      BY <1>2
    <2> QED
      BY <2>1, <2>2, <2>3, <2>4 DEF Counted
  <1> QED
    BY <1>1, <1>2 DEF Reported

\* A step that neither commits an edit or a recall nor pushes one.
LEMMA ScreensSame ==
  ASSUME Screens, shared \subseteq shared', screen' = screen, unpushed \subseteq unpushed',
         \A q \in Edits \cup Recalls : pc'[q] = "saved" <=> pc[q] = "saved",
         shared' = {} => \A m \in Msgs : /\ db'[Row(m)].body = db[Row(m)].body
                                         /\ db'[Row(m)].recalled = db[Row(m)].recalled
  PROVE  Screens'
  <1>1. SUFFICES ASSUME shared' = {}, NEW m \in Msgs \ unpushed' PROVE Shown(m)'
    BY DEF Screens
  <1>2. Shown(m)
    BY <1>1 DEF Screens
  <1>3. /\ db'[Row(m)].body = db[Row(m)].body
        /\ db'[Row(m)].recalled = db[Row(m)].recalled
    BY <1>1
  <1> QED
    BY <1>2, <1>3 DEF Shown

\* A step that is not of a toggle, or in which one fails.
LEMMA ToggledSame ==
  ASSUME Toggled, shared \subseteq shared', raced \subseteq raced',
         \A t \in Toggles : /\ pc'[t] = "done" <=> pc[t] = "done"
                            /\ t \in doubt' <=> t \in doubt
                            /\ pc'[t] = "read" => pc[t] = "read" /\ read'[t] = read[t],
         shared' = {} => \A m \in Msgs : db'[Reaction(m)] = db[Reaction(m)]
  PROVE  Toggled'
  <1>1. \A m \in Msgs : Clicks(m)' = Clicks(m)
    BY DEF Clicks
  <1>2. SUFFICES ASSUME shared' = {}, NEW m \in Msgs \ raced'
                 PROVE  /\ db'[Reaction(m)] = (Cardinality(Clicks(m)') % 2 = 1)
                        /\ \A t \in Toggles : On(t) = m /\ pc'[t] = "read" => read'[t] = db'[Reaction(m)]
    BY DEF Toggled
  <1>3. shared = {} /\ m \notin raced /\ db'[Reaction(m)] = db[Reaction(m)]
    BY <1>2
  <1> QED
    BY <1>1, <1>2, <1>3 DEF Toggled

\* The three together, for a step of q that answers nobody.
LEMMA NothingShown ==
  ASSUME Reported, Screens, Toggled, Onward, NEW q \in Requests, Only(q),
         UNCHANGED <<told, screen>>,
         q \in Edits \cup Recalls => (pc'[q] = "saved" <=> pc[q] = "saved"),
         q \in Recalls => (pc'[q] = "done" <=> pc[q] = "done"),
         q \in Toggles => (pc'[q] = "done" <=> pc[q] = "done") /\ pc'[q] # "read",
         q \in Acks => pc[q] = "new" /\ pc'[q] # "updated",
         q \in Toggles \cup Acks => (q \in doubt' <=> q \in doubt),
         \A t \in Toggles : read'[t] = read[t],
         shared' = {} => Same
  PROVE  Reported' /\ Screens' /\ Toggled'
  <1>1. /\ shared \subseteq shared' /\ unpushed \subseteq unpushed' /\ raced \subseteq raced'
        /\ \A p \in Requests \ {q} : pc'[p] = pc[p] /\ (p \in doubt' <=> p \in doubt)
    BY DEF Only
  <1>2. Reported'
    <2>1. \A p \in Recalls \ shared' : Answered(p)' => Answered(p)
      BY <1>1, Kinds DEF Answered
    <2>2. \A a \in Acks : /\ a \in doubt' <=> a \in doubt
                          /\ pc'[a] = pc[a] \/ (pc[a] = "new" /\ pc'[a] # "updated")
      BY <1>1, Kinds
    <2> QED
      BY <1>1, <2>1, <2>2, ReportedSame DEF Same
  <1>3. Screens'
    <2>1. \A p \in Edits \cup Recalls : pc'[p] = "saved" <=> pc[p] = "saved"
      BY <1>1, Kinds
    <2> QED
      BY <1>1, <2>1, ScreensSame DEF Same
  <1>4. Toggled'
    <2>1. \A t \in Toggles : /\ pc'[t] = "done" <=> pc[t] = "done"
                             /\ t \in doubt' <=> t \in doubt
                             /\ pc'[t] = "read" => pc[t] = "read" /\ read'[t] = read[t]
      BY <1>1, Kinds
    <2> QED
      BY <1>1, <2>1, ToggledSame DEF Same
  <1> QED
    BY <1>2, <1>3, <1>4

\* The parts of the invariant after a step of q.
LEMMA Assembled ==
  ASSUME Inv, NEW q \in Requests, Only(q), Moves(q), Plain', Stages', Pooled(q), Remembered',
         q \in Edits /\ q \notin shared' => EditOwns(q)',
         q \in Saves /\ q \notin shared' => SaveOwns(q)',
         Alone', Reported', Screens', Toggled'
  PROVE  Inv'
  <1>1. Core
    BY DEF Inv, Core
  <1>2. Connections'
    BY MovesConnections DEF Inv
  <1>3. Store' /\ Lawful' /\ Bodied' /\ Transactions' /\ Touches(q)
    BY DEF Pooled
  <1>4. EditsOwn'
    BY <1>1, <1>3, OthersOwn DEF Inv, EditsOwn
  <1>5. SavesOwn'
    BY <1>1, <1>3, OthersOwn DEF Inv, SavesOwn
  <1> QED
    BY <1>2, <1>3, <1>4, <1>5 DEF Inv

\* The same for a step of q that answers nobody and reads nothing.
LEMMA Silent ==
  ASSUME Inv, NEW q \in Requests, Only(q), Moves(q), Plain', Stages', Pooled(q),
         UNCHANGED <<told, screen, read>>,
         q \in Edits => /\ pc'[q] # "read"
                        /\ pc'[q] \in {"updated", "logged"} => pc[q] \in {"read", "updated", "logged"},
         q \in Edits \cup Recalls => pc'[q] # "saved" /\ pc[q] # "saved",
         q \in Recalls \cup Toggles => pc'[q] # "done" /\ pc[q] # "done" /\ pc'[q] # "read",
         q \in Acks => pc[q] = "new" /\ pc'[q] # "updated",
         q \in Toggles \cup Acks => (q \in doubt' <=> q \in doubt),
         q \in Edits /\ q \notin shared' => EditOwns(q)',
         q \in Saves /\ q \notin shared' => SaveOwns(q)',
         Alone', shared' = {} => Same
  PROVE  Inv' /\ Onward
  <1>1. Core /\ Onward
    BY DEF Inv, Core, Pooled
  <1>2. Remembered'
    BY <1>1, OthersRemember DEF Inv
  <1>3. Reported' /\ Screens' /\ Toggled'
    BY <1>1, NothingShown DEF Inv
  <1> QED
    BY <1>1, <1>2, <1>3, Assembled

-------------------------------------------------------------------------------
(* Every step keeps the invariant.                                         *)

\* A request that gets no connection.
LEMMA NoConnectionInv ==
  ASSUME Inv, NEW q \in Requests, NoConnection(q)
  PROVE  Inv' /\ Onward
  <1>1. Core
    BY DEF Inv, Core
  <1>2. Only(q) /\ Moves(q) /\ Plain' /\ Stages'
    BY NoConnectionMoves DEF Inv
  <1>3. /\ UNCHANGED <<db, tx, told, screen, read, doubt, shared>> /\ conn' = conn
        /\ pc[q] \in {"new", "again"}
        /\ q \in Acks => pc[q] = "new"
    BY DEF NoConnection, pool, ghosts, Inv, Stages
  <1>4. pc'[q] \in {"again", "failed"}
    BY DEF NoConnection, GiveUp, Go, Inv, Plain
  <1>5. Pooled(q)
    BY <1>1, <1>2, <1>3, QuietPooled
  <1>6. q \in Edits /\ q \notin shared' => EditOwns(q)'
    BY <1>1, <1>3, <1>4, EditOwnsStill DEF Inv, Answered, Working
  <1>7. q \in Saves /\ q \notin shared' => SaveOwns(q)'
    BY <1>1, <1>3, <1>4, SaveOwnsStill DEF Inv, Working
  <1>8. Alone' /\ Same
    BY <1>2, <1>3, StaysNone, StillAlone DEF Inv
  <1> QED
    BY <1>2, <1>3, <1>4, <1>5, <1>6, <1>7, <1>8, Silent

\* The guard of a failed transaction.
LEMMA GuardEndsInv ==
  ASSUME Inv, NEW q \in Requests, GuardEnds(q)
  PROVE  Inv' /\ Onward
  <1> PICK c : c = conn[q]
    OBVIOUS
  <1>1. Core
    BY DEF Inv, Core
  <1>2. Only(q) /\ Moves(q) /\ Plain' /\ Stages'
    BY GuardEndsMoves DEF Inv
  <1>3. /\ UNCHANGED <<told, screen, read, doubt, shared>>
        /\ pc[q] = "unwound" /\ Rollback(c) /\ q \notin Acks
    BY DEF GuardEnds, ghosts, Inv, Stages
  <1>4. pc'[q] \in {"again", "failed"}
    BY DEF GuardEnds, GiveUp, Go, Inv, Plain
  <1>5. Pooled(q)
    BY <1>1, <1>2, GuardEndsPooled
  <1>6. q \in Edits /\ q \notin shared' => EditOwns(q)'
    BY <1>1, <1>2, EditEndOwns DEF Inv
  <1>7. q \in Saves /\ q \notin shared' => SaveOwns(q)'
    BY <1>1, <1>2, SaveEndOwns DEF Inv
  <1>8. shared' = {} => Alone' /\ Same
    <2>1. c \in Conns
      BY <1>1, <1>3, HasConnection DEF Core
    <2>2. Discarded(c)
      BY <1>1, <1>3, <2>1, RollbackDoes DEF Core
    <2> QED
      BY <1>1, <1>2, <2>1, <2>2, StaysAt, EndAlone DEF Inv
  <1>9. Alone'
    BY <1>8 DEF Alone
  <1> QED
    BY <1>2, <1>3, <1>4, <1>5, <1>6, <1>7, <1>8, <1>9, Silent

\* The SELECT of an edit, after BEGIN.
LEMMA EditBeginInv ==
  ASSUME Inv, NEW e \in Edits, EditBegin(e)
  PROVE  Inv' /\ Onward
  <1>1. /\ Core /\ e \in Requests /\ e \notin Saves /\ e \notin Toggles /\ e \notin Recalls
        /\ e \notin Acks /\ On(e) \in Msgs
    BY Kinds DEF Inv, Core
  <1>2. Only(e) /\ Moves(e) /\ Plain' /\ Stages'
    BY EditBeginMoves DEF Inv
  <1>3. PICK c \in Conns : Acquire(e, c) /\ Begin(c)
    BY DEF EditBegin
  <1>4. /\ UNCHANGED <<told, screen>> /\ pc[e] \in {"new", "again"}
        /\ \A q \in Edits \cup Toggles : q # e => read'[q] = read[q]
    BY DEF EditBegin, Inv, Plain
  <1>5. \/ pc'[e] = "unwound"
        \/ pc'[e] = "read" /\ read'[e] = [old |-> db'[Row(On(e))].body,
                                         original |-> db'[Row(On(e))].original]
    BY <1>1 DEF EditBegin, Go, Inv, Plain
  <1>6. Pooled(e)
    BY <1>1, <1>2, EditBeginPooled
  <1>7. Good(On(e), db'[Row(On(e))]) /\ Onward
    BY <1>1, <1>6 DEF Pooled, Lawful, GoodRows
  <1>8. Remembered'
    <2>1. ASSUME NEW b \in Edits, b # e
          PROVE  /\ pc'[b] \in {"read", "updated", "logged"} => read'[b].old \in Bodies
                 /\ pc'[b] = "read" =>
                      /\ read'[b].original = None => read'[b].old = First
                      /\ read'[b].original # None => db'[Row(On(b))].body # First
      <3>1. pc'[b] = pc[b] /\ read'[b] = read[b] /\ On(b) \in Msgs
        BY <1>2, <1>4, <2>1, Kinds DEF Only
      <3> QED
        BY <1>7, <3>1 DEF Inv, Remembered, Onward, Succeeds
    <2>2. /\ pc'[e] \in {"read", "updated", "logged"} => read'[e].old \in Bodies
          /\ pc'[e] = "read" =>
               /\ read'[e].original = None => read'[e].old = First
               /\ read'[e].original # None => db'[Row(On(e))].body # First
      BY <1>5, <1>7 DEF Good, MessageRows, None, First
    <2> QED
      BY <2>1, <2>2 DEF Remembered
  <1>9. e \notin shared' => EditOwns(e)'
    BY <1>1, <1>2, EditBeginOwns DEF Inv
  <1>10. shared' = {} => Alone' /\ Same
    <2>1. conn[e] = None
      BY <1>1, <1>4, HasConnection DEF Core, Working
    <2>2. Flushed(c)
      BY <1>1, <1>3, BeginDoes DEF Core
    <2>3. e \notin shared' => Writes(c) = {}
      BY <1>1, <1>3, FreeIsClosed
    <2> QED
      BY <1>1, <1>2, <2>1, <2>2, <2>3, StaysAt, EndAlone DEF Inv
  <1>11. Alone'
    BY <1>10 DEF Alone
  <1>12. Reported' /\ Screens' /\ Toggled'
    <2>1. \A t \in Toggles : read'[t] = read[t]
      BY <1>1, <1>4
    <2> QED
      BY <1>1, <1>2, <1>4, <1>5, <1>7, <1>10, <2>1, NothingShown DEF Inv
  <1> QED
    BY <1>1, <1>2, <1>6, <1>7, <1>8, <1>9, <1>11, <1>12, Assembled

\* The UPDATE of an edit.
LEMMA EditUpdateInv ==
  ASSUME Inv, NEW e \in Edits, EditUpdate(e)
  PROVE  Inv' /\ Onward
  <1> PICK c : c = conn[e]
    OBVIOUS
  <1>1. /\ Core /\ e \in Requests /\ e \notin Saves /\ e \notin Toggles /\ e \notin Recalls
        /\ e \notin Acks /\ On(e) \in Msgs /\ Row(On(e)) \in Rows
    BY Kinds, RowsIn DEF Inv, Core
  <1>2. Only(e) /\ Moves(e) /\ Plain' /\ Stages'
    BY EditUpdateMoves DEF Inv
  <1>3. /\ UNCHANGED <<told, screen, read, shared>>
        /\ pc[e] = "read" /\ conn'[e] = c
    BY DEF EditUpdate, ghosts
  <1>4. pc'[e] \in {"updated", "unwound"}
    BY <1>1 DEF EditUpdate, Unwind, Go, Inv, Plain
  <1>5. Pooled(e)
    BY <1>1, <1>2, EditUpdatePooled DEF Inv
  <1>6. e \notin shared' => EditOwns(e)'
    BY <1>1, <1>2, EditUpdateOwns DEF Inv
  <1>7. Stays(None)
    BY <1>1, <1>2, <1>3, StaysNone
  <1>8. ASSUME shared' = {} PROVE Alone' /\ Same
    <2>1. c \in Conns /\ Current(c)[Row(On(e))] = Cur(c, Row(On(e)))
      BY <1>1, <1>2, <1>3, WorkingHas, CurGood DEF Core, Working
    <2>2. CASE Write(c, Row(On(e)), Edited(e, Cur(c, Row(On(e)))))
      <3> PICK v : v = Edited(e, Cur(c, Row(On(e))))
        OBVIOUS
      <3>1. Cur(c, Row(On(e))) \in MessageRows
        BY <1>1, <2>1, CurGood DEF Core, Good
      <3>2. /\ v.body = e /\ v.recalled = Cur(c, Row(On(e))).recalled
            /\ v.delivered = Cur(c, Row(On(e))).delivered
        BY <3>1 DEF Edited, MessageRows
      <3>3. tx[c].open
        BY <1>3, <1>8 DEF Inv, EditsOwn, EditOwns, Working
      <3>4. Kept(c, Row(On(e)), v)
        BY <1>1, <2>1, <2>2, <3>3, WriteDoes DEF Core, Stored
      <3> QED
        BY <1>1, <1>7, <1>8, <2>1, <3>2, <3>4, UpdateAlone DEF Inv
    <2>3. CASE UNCHANGED <<db, tx>>
      BY <1>7, <2>3, StillAlone DEF Inv
    <2> QED
      BY <2>1, <2>2, <2>3 DEF EditUpdate, Tried
  <1>9. Alone'
    BY <1>8 DEF Alone
  <1> QED
    BY <1>1, <1>2, <1>3, <1>4, <1>5, <1>6, <1>8, <1>9, Silent

\* A statement of a transaction on a row of its own.
LEMMA OwnRowAlone ==
  ASSUME Inv, NEW q \in Requests, Only(q), conn'[q] = conn[q], conn[q] \in Conns,
         NEW r \in Rows, NEW v, Write(conn[q], r, v), tx[conn[q]].open, shared' = {},
         \A m \in Msgs : r # Row(m) /\ r # Reaction(m)
  PROVE  Alone' /\ Same
  <1> PICK c : c = conn[q]
    OBVIOUS
  <1>1. Core
    BY DEF Inv, Core
  <1>2. Stays(None)
    BY StaysNone
  <1>3. Kept(c, r, v)
    BY <1>1, WriteDoes DEF Core, Stored
  <1> QED
    BY <1>1, <1>2, <1>3, OtherAlone DEF Inv

\* The row in message_edits.
LEMMA EditLogInv ==
  ASSUME Inv, NEW e \in Edits, EditLog(e)
  PROVE  Inv' /\ Onward
  <1>1. /\ Core /\ e \in Requests /\ e \notin Saves /\ e \notin Toggles /\ e \notin Recalls
        /\ e \notin Acks /\ On(e) \in Msgs /\ EditRow(e) \in Rows
    BY Kinds, RowsIn DEF Inv, Core
  <1>2. Only(e) /\ Moves(e) /\ Plain' /\ Stages'
    BY EditLogMoves DEF Inv
  <1>3. /\ UNCHANGED <<told, screen, read, shared>>
        /\ pc[e] = "updated" /\ conn'[e] = conn[e]
    BY DEF EditLog, ghosts
  <1>4. pc'[e] \in {"logged", "unwound"}
    BY <1>1 DEF EditLog, Unwind, Go, Inv, Plain
  <1>5. Pooled(e)
    BY <1>1, <1>2, EditLogPooled DEF Inv
  <1>6. e \notin shared' => EditOwns(e)'
    BY <1>1, <1>2, EditLogOwns DEF Inv
  <1>7. ASSUME shared' = {} PROVE Alone' /\ Same
    <2>1. conn[e] \in Conns
      BY <1>1, <1>2, <1>3, WorkingHas DEF Working
    <2>2. tx[conn[e]].open
      BY <1>3, <1>7 DEF Inv, EditsOwn, EditOwns, Working
    <2>3. CASE Write(conn[e], EditRow(e), read[e].old)
      BY <1>1, <1>2, <1>3, <1>7, <2>1, <2>2, <2>3, RowsApart, OwnRowAlone
    <2>4. CASE UNCHANGED <<db, tx>>
      BY <1>1, <1>2, <1>3, <2>4, StaysNone, StillAlone DEF Inv
    <2> QED
      BY <2>3, <2>4 DEF EditLog, Tried
  <1>8. Alone'
    BY <1>7 DEF Alone
  <1> QED
    BY <1>1, <1>2, <1>3, <1>4, <1>5, <1>6, <1>7, <1>8, Silent

\* A save begins.
LEMMA SaveBeginInv ==
  ASSUME Inv, NEW s \in Saves, SaveBegin(s)
  PROVE  Inv' /\ Onward
  <1>1. Core /\ s \in Requests /\ s \notin Edits /\ s \notin Toggles /\ s \notin Recalls /\ s \notin Acks
    BY Kinds DEF Inv, Core
  <1>2. Only(s) /\ Moves(s) /\ Plain' /\ Stages'
    BY SaveBeginMoves DEF Inv
  <1>3. PICK c \in Conns : Acquire(s, c) /\ Begin(c)
    BY DEF SaveBegin
  <1>4. UNCHANGED <<told, screen, read>> /\ pc[s] = "new"
    BY DEF SaveBegin
  <1>5. Pooled(s)
    BY <1>1, <1>2, SaveBeginPooled
  <1>6. s \notin shared' => SaveOwns(s)'
    BY <1>1, <1>2, SaveBeginOwns DEF Inv
  <1>7. shared' = {} => Alone' /\ Same
    <2>1. conn[s] = None
      BY <1>1, <1>4, HasConnection DEF Core, Working
    <2>2. Flushed(c)
      BY <1>1, <1>3, BeginDoes DEF Core
    <2>3. s \notin shared' => Writes(c) = {}
      BY <1>1, <1>3, FreeIsClosed
    <2> QED
      BY <1>1, <1>2, <2>1, <2>2, <2>3, StaysAt, EndAlone DEF Inv
  <1>8. Alone'
    BY <1>7 DEF Alone
  <1> QED
    BY <1>1, <1>2, <1>4, <1>5, <1>6, <1>7, <1>8, Silent

\* The two INSERTs of a save.
LEMMA SaveInsertInv ==
  ASSUME Inv, NEW s \in Saves, SaveInsert(s)
  PROVE  Inv' /\ Onward
  <1>1. /\ Core /\ s \in Requests /\ s \notin Edits /\ s \notin Toggles /\ s \notin Recalls /\ s \notin Acks
        /\ SaveRow(s) \in Rows /\ OutboxRow(s) \in Rows
    BY Kinds, RowsIn DEF Inv, Core
  <1>2. Only(s) /\ Moves(s) /\ Plain' /\ Stages'
    BY SaveInsertMoves DEF Inv
  <1>3. /\ UNCHANGED <<told, screen, read, shared>>
        /\ pc[s] \in {"open", "updated", "spoiled"} /\ conn'[s] = conn[s]
    BY DEF SaveInsert, ghosts
  <1>4. Pooled(s)
    BY <1>1, <1>2, SaveInsertPooled
  <1>5. s \notin shared' => SaveOwns(s)'
    BY <1>1, <1>2, SaveInsertOwns DEF Inv
  <1>6. ASSUME shared' = {} PROVE Alone' /\ Same
    <2>1. conn[s] \in Conns
      BY <1>1, <1>2, <1>3, WorkingHas DEF Working
    <2>2. tx[conn[s]].open
      BY <1>3, <1>6 DEF Inv, SavesOwn, SaveOwns, Working
    <2>3. CASE Write(conn[s], SaveRow(s), TRUE)
      <3> PICK v : v = TRUE
        OBVIOUS
      <3>1. Write(conn[s], SaveRow(s), v)
        BY <2>3
      <3>2. \A m \in Msgs : SaveRow(s) # Row(m) /\ SaveRow(s) # Reaction(m)
        BY RowsApart
      <3> QED
        BY <1>1, <1>2, <1>3, <1>6, <2>1, <2>2, <3>1, <3>2, OwnRowAlone
    <2>4. CASE Write(conn[s], OutboxRow(s), TRUE)
      <3> PICK v : v = TRUE
        OBVIOUS
      <3>1. Write(conn[s], OutboxRow(s), v)
        BY <2>4
      <3>2. \A m \in Msgs : OutboxRow(s) # Row(m) /\ OutboxRow(s) # Reaction(m)
        BY RowsApart
      <3> QED
        BY <1>1, <1>2, <1>3, <1>6, <2>1, <2>2, <3>1, <3>2, OwnRowAlone
    <2>5. CASE UNCHANGED <<db, tx>>
      BY <1>1, <1>2, <1>3, <2>5, StaysNone, StillAlone DEF Inv
    <2> QED
      BY <2>3, <2>4, <2>5 DEF SaveInsert, Tried
  <1>7. Alone'
    BY <1>6 DEF Alone
  <1> QED
    BY <1>1, <1>2, <1>3, <1>4, <1>5, <1>6, <1>7, Silent

\* A save is committed.
LEMMA SaveCommitInv ==
  ASSUME Inv, NEW s \in Saves, SaveCommit(s)
  PROVE  Inv' /\ Onward
  <1> PICK c : c = conn[s]
    OBVIOUS
  <1>1. Core /\ s \in Requests /\ s \notin Edits /\ s \notin Toggles /\ s \notin Recalls /\ s \notin Acks
    BY Kinds DEF Inv, Core
  <1>2. Only(s) /\ Moves(s) /\ Plain' /\ Stages'
    BY SaveCommitMoves DEF Inv
  <1>3. UNCHANGED <<told, screen, read, shared>> /\ pc[s] = "logged"
    BY DEF SaveCommit
  <1>4. Pooled(s)
    BY <1>1, <1>2, SaveCommitPooled
  <1>5. s \notin shared' => SaveOwns(s)'
    BY <1>1, <1>2, SaveCommitOwns DEF Inv
  <1>6. ASSUME shared' = {} PROVE Alone' /\ Same
    <2>1. c \in Conns /\ c # None
      BY <1>1, <1>2, <1>3, WorkingHas DEF Working
    <2>2. \A e \in Edits : conn[e] # c
      BY <1>1, <1>3, <1>6, <2>1, WorksAlone, Kinds
    <2>3. \A m \in Msgs : Row(m) \notin Writes(c)
      BY <1>3, <1>6, <2>1, <2>2 DEF Inv, Alone, AloneAt
    <2>4. CASE Commit(c)
      <3>1. Flushed(c)
        BY <1>1, <2>1, <2>4, CommitDoes DEF Core
      <3> QED
        BY <1>1, <1>2, <1>6, <2>1, <2>3, <3>1, StaysAt, EndAlone DEF Inv
    <2>5. CASE UNCHANGED <<db, tx, conn>>
      BY <1>1, <1>2, <2>5, StaysNone, StillAlone DEF Inv
    <2> QED
      BY <2>4, <2>5 DEF SaveCommit
  <1>7. Alone'
    BY <1>6 DEF Alone
  <1> QED
    BY <1>1, <1>2, <1>3, <1>4, <1>5, <1>6, <1>7, Silent

\* The commit of an edit, which is then the body of the message, and whose push is on
\* its way or, when the answer was lost, will not come.
LEMMA EditCommitInv ==
  ASSUME Inv, NEW e \in Edits, EditCommit(e)
  PROVE  Inv' /\ Onward
  <1> PICK c : c = conn[e]
    OBVIOUS
  <1>1. /\ Core /\ e \in Requests /\ e \notin Saves /\ e \notin Toggles /\ e \notin Recalls
        /\ e \notin Acks /\ On(e) \in Msgs
    BY Kinds DEF Inv, Core
  <1>2. Only(e) /\ Moves(e) /\ Plain' /\ Stages'
    BY EditCommitMoves DEF Inv
  <1>3. UNCHANGED <<told, screen, read, shared>> /\ pc[e] = "logged"
    BY DEF EditCommit
  <1>4. Pooled(e) /\ Onward
    BY <1>1, <1>2, EditCommitPooled DEF Inv, Pooled
  <1>5. e \notin shared' => EditOwns(e)'
    BY <1>1, <1>2, EditCommitOwns DEF Inv
  <1>6. ASSUME UNCHANGED <<db, tx, conn>>, pc'[e] = "unwound"
        PROVE  Inv'
    <2>1. Alone' /\ Same
      BY <1>1, <1>2, <1>6, StaysNone, StillAlone DEF Inv
    <2> QED
      BY <1>1, <1>2, <1>3, <1>4, <1>5, <1>6, <2>1, Silent
  <1>7. ASSUME Commit(c), pc'[e] = "saved" \/ (pc'[e] = "unwound" /\ On(e) \in unpushed')
        PROVE  Inv'
    <2>1. Remembered'
      BY <1>1, <1>2, <1>3, <1>4, <1>7, OthersRemember DEF Inv
    <2>2. /\ shared' = {} => Alone'
          /\ shared' = {} => /\ db'[Row(On(e))].body = e
                             /\ \A m \in Msgs : /\ m # On(e) => db'[Row(m)] = db[Row(m)]
                                                /\ db'[Row(m)].recalled = db[Row(m)].recalled
                                                /\ db'[Row(m)].delivered = db[Row(m)].delivered
                                                /\ db'[Reaction(m)] = db[Reaction(m)]
      <3>1. c \in Conns
        BY <1>1, <1>2, <1>3, WorkingHas DEF Working
      <3>2. Flushed(c)
        BY <1>1, <1>7, <3>1, CommitDoes DEF Core
      <3>3. Stays(c)
        BY <1>1, <1>2, StaysAt
      <3> QED
        BY <1>1, <1>3, <3>1, <3>2, <3>3, CommitAlone DEF Inv
    <2>3. Alone'
      BY <2>2 DEF Alone
    <2>4. /\ raced \subseteq raced' /\ unpushed \subseteq unpushed'
          /\ \A p \in Requests \ {e} : pc'[p] = pc[p] /\ (p \in doubt' <=> p \in doubt)
      BY <1>2 DEF Only
    <2>5. Reported'
      <3>1. \A q \in Recalls \ shared' : Answered(q)' => Answered(q)
        BY <1>1, <2>4, Kinds DEF Answered
      <3>2. \A a \in Acks : pc'[a] = pc[a] /\ (a \in doubt' <=> a \in doubt)
        BY <1>1, <2>4, Kinds
      <3> QED
        BY <1>3, <1>4, <2>2, <3>1, <3>2, ReportedSame DEF Inv
    <2>6. Toggled'
      <3>1. \A t \in Toggles : pc'[t] = pc[t] /\ (t \in doubt' <=> t \in doubt)
        BY <1>1, <2>4, Kinds
      <3> QED
        BY <1>3, <2>2, <2>4, <3>1, ToggledSame DEF Inv
    <2>7. Screens'
      <3>1. SUFFICES ASSUME shared' = {}, NEW m \in Msgs \ unpushed' PROVE Shown(m)'
        BY DEF Screens
      <3>2. Shown(m)
        BY <1>3, <2>4, <3>1 DEF Inv, Screens
      <3>3. \A q \in Recalls : pc'[q] = pc[q]
        BY <1>1, <2>4, Kinds
      <3>4. \A d \in Edits \ {e} : pc'[d] = pc[d]
        BY <2>4, Kinds
      <3>5. CASE m # On(e)
        <4>1. db'[Row(m)] = db[Row(m)]
          BY <2>2, <3>1, <3>5
        <4>2. \A d \in Edits : On(d) = m => pc'[d] = pc[d]
          BY <3>4, <3>5
        <4> QED
          BY <1>3, <3>2, <3>3, <4>1, <4>2 DEF Shown
      <3>6. CASE m = On(e)
        <4>1. db'[Row(m)].recalled = db[Row(m)].recalled /\ db'[Row(m)].body = e
          BY <2>2, <3>1, <3>6
        <4>2. pc'[e] = "saved"
          BY <1>7, <3>1, <3>6
        <4>3. \A d \in Edits : d # e /\ At(d) = At(e) => pc'[d] # "saved"
          BY <1>3, <3>4 DEF Inv, Stages, Idling
        <4> QED
          BY <1>3, <3>2, <3>3, <3>6, <4>1, <4>2, <4>3 DEF Shown
      <3> QED
        BY <3>5, <3>6
    <2> QED
      BY <1>1, <1>2, <1>4, <1>5, <2>1, <2>3, <2>5, <2>6, <2>7, Assembled
  <1>8. \/ UNCHANGED <<db, tx, conn>> /\ pc'[e] = "unwound"
        \/ Commit(c) /\ (pc'[e] = "saved" \/ (pc'[e] = "unwound" /\ On(e) \in unpushed'))
    BY <1>1 DEF EditCommit, Unwind, Unpushed, Go, Inv, Plain
  <1> QED
    BY <1>4, <1>6, <1>7, <1>8

\* The push of an edit.
LEMMA EditPushInv ==
  ASSUME Inv, NEW e \in Edits, EditPush(e)
  PROVE  Inv' /\ Onward
  <1>1. /\ Core /\ e \in Requests /\ e \notin Saves /\ e \notin Toggles /\ e \notin Recalls
        /\ e \notin Acks /\ On(e) \in Msgs
    BY Kinds DEF Inv, Core
  <1>2. Only(e) /\ Moves(e) /\ Plain' /\ Stages'
    BY EditPushMoves DEF Inv
  <1>3. UNCHANGED <<db, tx, conn, told, read, shared, doubt>> /\ pc[e] = "saved"
    BY DEF EditPush, pool
  <1>4. pc'[e] = "done"
    BY <1>1 DEF EditPush, Go, Inv, Plain
  <1>5. Pooled(e) /\ Onward
    BY <1>1, <1>2, <1>3, QuietPooled DEF Pooled
  <1>6. e \notin shared' => EditOwns(e)'
    BY <1>1, <1>3, <1>4, EditOwnsStill DEF Inv, Answered, Working
  <1>7. Alone'
    BY <1>1, <1>2, <1>3, StaysNone, StillAlone DEF Inv
  <1>8. Remembered'
    BY <1>1, <1>2, <1>3, <1>4, <1>5, OthersRemember DEF Inv
  <1>9. /\ raced \subseteq raced' /\ unpushed \subseteq unpushed'
        /\ \A p \in Requests \ {e} : pc'[p] = pc[p]
    BY <1>2 DEF Only
  <1>10. Reported'
    <2>1. \A q \in Recalls \ shared' : Answered(q)' => Answered(q)
      BY <1>1, <1>9, Kinds DEF Answered
    <2>2. \A a \in Acks : pc'[a] = pc[a]
      BY <1>1, <1>9, Kinds
    <2> QED
      BY <1>3, <1>5, <2>1, <2>2, ReportedSame DEF Inv
  <1>11. Toggled'
    <2>1. \A t \in Toggles : pc'[t] = pc[t]
      BY <1>1, <1>9, Kinds
    <2> QED
      BY <1>3, <1>9, <2>1, ToggledSame DEF Inv
  <1>12. Screens'
    <2>1. SUFFICES ASSUME shared' = {}, NEW m \in Msgs \ unpushed' PROVE Shown(m)'
      BY DEF Screens
    <2>2. Shown(m)
      BY <1>3, <1>9, <2>1 DEF Inv, Screens
    <2>3. \A q \in Recalls : pc'[q] = pc[q]
      BY <1>1, <1>9, Kinds
    <2>4. \A d \in Edits \ {e} : pc'[d] = pc[d]
      BY <1>9, Kinds
    <2>5. /\ screen'[m].recalled = screen[m].recalled
          /\ m # On(e) => screen'[m].body = screen[m].body
          /\ m = On(e) => At(e) = Seat(m) /\ screen'[m].body = e
      BY <1>1, <2>1 DEF EditPush, Unpushed, Inv, Plain
    <2>6. CASE m # On(e)
      <3>1. \A d \in Edits : On(d) = m => pc'[d] = pc[d]
        BY <2>4, <2>6
      <3> QED
        BY <1>3, <2>2, <2>3, <2>5, <2>6, <3>1 DEF Shown
    <2>7. CASE m = On(e)
      <3>1. /\ m \in ToFriend =>
                 /\ screen'[m].recalled => db'[Row(m)].recalled
                 /\ db'[Row(m)].recalled /\ ~screen'[m].recalled =>
                      \E q \in Recalls : On(q) = m /\ pc'[q] = "saved"
        BY <1>3, <2>2, <2>3, <2>5 DEF Shown
      <3>2. ASSUME \A d \in Edits : On(d) = m /\ pc'[d] = "saved" => At(d) = Seat(m)
            PROVE  /\ \A d \in Edits : On(d) = m /\ pc'[d] = "saved" => db'[Row(m)].body = d
                   /\ screen'[m].body = db'[Row(m)].body
        <4>1. \A d \in Edits : On(d) = m /\ pc[d] = "saved" => At(d) = Seat(m)
          BY <2>4, <2>5, <2>7, <3>2
        <4>2. \A d \in Edits : On(d) = m /\ pc[d] = "saved" => db[Row(m)].body = d
          BY <2>2, <4>1 DEF Shown
        <4>3. \A d \in Edits : pc'[d] = "saved" => pc[d] = "saved"
          BY <1>3, <2>4
        <4> QED
          BY <1>3, <2>5, <2>7, <4>2, <4>3
      <3> QED
        BY <3>1, <3>2 DEF Shown
    <2> QED
      BY <2>6, <2>7
  <1> QED
    BY <1>1, <1>2, <1>5, <1>6, <1>7, <1>8, <1>10, <1>11, <1>12, Assembled

\* The friends are told of a recall.
LEMMA RecallPushInv ==
  ASSUME Inv, NEW q \in Recalls, RecallPush(q)
  PROVE  Inv' /\ Onward
  <1>1. /\ Core /\ q \in Requests /\ q \notin Saves /\ q \notin Toggles /\ q \notin Edits
        /\ q \notin Acks /\ On(q) \in Msgs
    BY Kinds DEF Inv, Core
  <1>2. Only(q) /\ Moves(q) /\ Plain' /\ Stages'
    BY RecallPushMoves DEF Inv
  <1>3. UNCHANGED <<db, tx, conn, told, read, shared, doubt>> /\ pc[q] = "saved"
    BY DEF RecallPush, pool
  <1>4. pc'[q] = "done"
    BY <1>1 DEF RecallPush, Go, Inv, Plain
  <1>5. Pooled(q) /\ Onward
    BY <1>1, <1>2, <1>3, QuietPooled DEF Pooled
  <1>6. Alone'
    BY <1>1, <1>2, <1>3, StaysNone, StillAlone DEF Inv
  <1>7. Remembered'
    BY <1>1, <1>2, <1>3, <1>5, OthersRemember DEF Inv
  <1>8. /\ raced \subseteq raced' /\ unpushed \subseteq unpushed'
        /\ \A p \in Requests \ {q} : pc'[p] = pc[p]
    BY <1>2 DEF Only
  <1>9. Reported'
    <2>1. \A p \in Recalls \ shared' : Answered(p)' => Answered(p)
      BY <1>3, <1>8, Kinds DEF Answered
    <2>2. \A a \in Acks : pc'[a] = pc[a]
      BY <1>1, <1>8, Kinds
    <2> QED
      BY <1>3, <1>5, <2>1, <2>2, ReportedSame DEF Inv
  <1>10. Toggled'
    <2>1. \A t \in Toggles : pc'[t] = pc[t]
      BY <1>1, <1>8, Kinds
    <2> QED
      BY <1>3, <1>8, <2>1, ToggledSame DEF Inv
  <1>11. Screens'
    <2>1. SUFFICES ASSUME shared' = {}, NEW m \in Msgs \ unpushed' PROVE Shown(m)'
      BY DEF Screens
    <2>2. Shown(m)
      BY <1>3, <1>8, <2>1 DEF Inv, Screens
    <2>3. \A d \in Edits : pc'[d] = pc[d]
      BY <1>1, <1>8, Kinds
    <2>4. \A p \in Recalls \ {q} : pc'[p] = pc[p]
      BY <1>8, Kinds
    <2>5. db[Row(On(q))].recalled
      BY <1>3, <2>1 DEF Inv, Reported, Answered
    <2>6. /\ screen'[m].body = screen[m].body
          /\ m # On(q) => screen'[m].recalled = screen[m].recalled
          /\ m = On(q) /\ m \in ToFriend => screen'[m].recalled
      BY <1>1, <2>1 DEF RecallPush, Unpushed, Inv, Plain
    <2>7. CASE m # On(q)
      <3>1. \A p \in Recalls : On(p) = m => pc'[p] = pc[p]
        BY <2>4, <2>7
      <3> QED
        BY <1>3, <2>2, <2>3, <2>6, <2>7, <3>1 DEF Shown
    <2>8. CASE m = On(q)
      BY <1>3, <2>2, <2>3, <2>5, <2>6, <2>8 DEF Shown
    <2> QED
      BY <2>7, <2>8
  <1> QED
    BY <1>1, <1>2, <1>5, <1>6, <1>7, <1>9, <1>10, <1>11, Assembled

\* A statement on a message without a transaction of its own, on a connection that
\* nobody shares: it is stored.
LEMMA FreshlyStored ==
  ASSUME Core, NEW q \in Requests, NEW c \in Conns, NEW r \in Rows, NEW v, Acquire(q, c),
         Unlocked(c, r), Write(c, r, v), q \notin shared'
  PROVE  Stored(c, r, v) /\ \A d \in Conns : r \notin Writes(d)
  <1>1. ~tx[c].open /\ Writes(c) = {}
    BY FreeIsClosed
  <1>2. Stored(c, r, v)
    BY <1>1, WriteDoes DEF Core, Kept
  <1> QED
    BY <1>1, <1>2 DEF Unlocked, Writes

\* A recall.
LEMMA RecallInv ==
  ASSUME Inv, NEW q \in Recalls, Recall(q)
  PROVE  Inv' /\ Onward
  <1>1. /\ Core /\ q \in Requests /\ q \notin Saves /\ q \notin Toggles /\ q \notin Edits
        /\ q \notin Acks /\ On(q) \in Msgs /\ Row(On(q)) \in Rows
    BY Kinds, RowsIn DEF Inv, Core
  <1>2. Only(q) /\ Moves(q) /\ Plain' /\ Stages'
    BY RecallMoves DEF Inv
  <1>3. UNCHANGED <<conn, told, read, screen>> /\ pc[q] = "new"
    BY DEF Recall
  <1>4. Pooled(q) /\ Onward
    BY <1>1, <1>2, RecallPooled DEF Pooled
  <1>5. /\ \A p \in Requests \ {q} : pc'[p] = pc[p] /\ (p \in doubt' <=> p \in doubt)
        /\ shared \subseteq shared' /\ raced \subseteq raced' /\ unpushed \subseteq unpushed'
    BY <1>2 DEF Only
  <1>6. Stays(None)
    BY <1>1, <1>2, <1>3, StaysNone
  <1>7. ASSUME UNCHANGED <<db, tx>>, pc'[q] = "failed"
        PROVE  Inv'
    <2>1. Alone' /\ Same
      BY <1>6, <1>7, StillAlone DEF Inv
    <2> QED
      BY <1>1, <1>2, <1>3, <1>4, <1>7, <2>1, Silent
  <1>8. ASSUME NEW c \in Conns, Acquire(q, c), Unlocked(c, Row(On(q))),
               pc'[q] = "saved" \/ (pc'[q] = "failed" /\ On(q) \in unpushed'),
               Write(c, Row(On(q)), [Current(c)[Row(On(q))] EXCEPT !.recalled = TRUE])
        PROVE  Inv'
    <2> PICK v : v = [Current(c)[Row(On(q))] EXCEPT !.recalled = TRUE]
      OBVIOUS
    <2>1. /\ Current(c)[Row(On(q))] \in MessageRows
          /\ Current(c)[Row(On(q))] = Cur(c, Row(On(q)))
      BY <1>1, CurGood DEF Core, Good
    <2>2. v.recalled /\ v.body = Cur(c, Row(On(q))).body /\ v.delivered = Cur(c, Row(On(q))).delivered
      BY <2>1 DEF MessageRows
    <2>3. ASSUME q \notin shared'
          PROVE  /\ Stored(c, Row(On(q)), v) /\ \A d \in Conns : Row(On(q)) \notin Writes(d)
                 /\ db'[Row(On(q))].recalled
                 /\ \A m \in Msgs : /\ db'[Row(m)].body = db[Row(m)].body
                                    /\ db'[Row(m)].delivered = db[Row(m)].delivered
                                    /\ m # On(q) => db'[Row(m)].recalled = db[Row(m)].recalled
                                    /\ db'[Reaction(m)] = db[Reaction(m)]
      <3>1. Stored(c, Row(On(q)), v) /\ \A d \in Conns : Row(On(q)) \notin Writes(d)
        BY <1>1, <1>8, <2>3, FreshlyStored
      <3>2. Cur(c, Row(On(q))) = db[Row(On(q))]
        BY <3>1 DEF Cur
      <3>3. db'[Row(On(q))] = v
        BY <3>1 DEF Stored
      <3>4. \A m \in Msgs : /\ m # On(q) => db'[Row(m)] = db[Row(m)]
                            /\ db'[Reaction(m)] = db[Reaction(m)]
        BY <3>1, RowsIn, RowsApart DEF Stored
      <3> QED
        BY <2>2, <3>1, <3>2, <3>3, <3>4
    <2>4. Alone'
      <3>1. shared' = {} => Alone'
        BY <1>1, <1>6, <2>3, StoredAlone DEF Inv
      <3> QED
        BY <3>1 DEF Alone
    <2>5. Remembered'
      BY <1>1, <1>2, <1>3, <1>4, OthersRemember DEF Inv
    <2>6. Reported'
      <3>1. ASSUME NEW p \in Recalls \ shared', Answered(p)' PROVE db'[Row(On(p))].recalled
        <4>1. CASE p = q
          BY <2>3, <3>1, <4>1
        <4>2. CASE p # q
          <5>1. pc'[p] = pc[p] /\ On(p) \in Msgs /\ p \notin shared
            BY <1>5, <4>2, Kinds
          <5>2. db[Row(On(p))].recalled
            BY <3>1, <5>1 DEF Inv, Reported, Answered
          <5> QED
            BY <1>4, <5>1, <5>2 DEF Onward, Succeeds
        <4> QED
          BY <4>1, <4>2
      <3>2. ASSUME shared' = {}, NEW m \in Msgs PROVE Counted(m)'
        <4>1. q \notin shared' /\ shared = {}
          BY <1>5, <3>2
        <4>2. Counted(m)
          BY <4>1 DEF Inv, Reported
        <4>3. \A a \in Acks : pc'[a] = pc[a] /\ (a \in doubt' <=> a \in doubt)
          BY <1>1, <1>5, Kinds
        <4>4. AllHeard(m)' <=> AllHeard(m)
          BY <4>3 DEF AllHeard, Heard
        <4> QED
          BY <1>3, <2>3, <4>1, <4>2, <4>3, <4>4 DEF Counted
      <3> QED
        BY <3>1, <3>2 DEF Reported
    <2>7. Toggled'
      <3>1. \A t \in Toggles : pc'[t] = pc[t] /\ (t \in doubt' <=> t \in doubt)
        BY <1>1, <1>5, Kinds
      <3> QED
        BY <1>3, <1>5, <2>3, <3>1, ToggledSame DEF Inv
    <2>8. Screens'
      <3>1. SUFFICES ASSUME shared' = {}, NEW m \in Msgs \ unpushed' PROVE Shown(m)'
        BY DEF Screens
      <3>2. Shown(m)
        BY <1>5, <3>1 DEF Inv, Screens
      <3>3. \A d \in Edits : pc'[d] = pc[d]
        BY <1>1, <1>5, Kinds
      <3>4. \A p \in Recalls : pc[p] = "saved" => pc'[p] = "saved"
        BY <1>3, <1>5, Kinds
      <3>5. /\ db'[Row(m)].body = db[Row(m)].body
            /\ m # On(q) => db'[Row(m)].recalled = db[Row(m)].recalled
            /\ m = On(q) => db'[Row(m)].recalled
        BY <2>3, <3>1
      <3>6. m = On(q) => pc'[q] = "saved"
        BY <1>8, <3>1
      <3> QED
        BY <1>3, <3>2, <3>3, <3>4, <3>5, <3>6 DEF Shown
    <2> QED
      BY <1>1, <1>2, <1>4, <2>4, <2>5, <2>6, <2>7, <2>8, Assembled
  <1>9. \/ UNCHANGED <<db, tx>> /\ pc'[q] = "failed"
        \/ \E c \in Conns :
             /\ Acquire(q, c) /\ Unlocked(c, Row(On(q)))
             /\ pc'[q] = "saved" \/ (pc'[q] = "failed" /\ On(q) \in unpushed')
             /\ Write(c, Row(On(q)), [Current(c)[Row(On(q))] EXCEPT !.recalled = TRUE])
    BY <1>1 DEF Recall, Unpushed, Go, Inv, Plain
  <1> QED
    BY <1>4, <1>7, <1>8, <1>9

\* The UPDATE of a delivery ack: the sender is not told yet.
LEMMA AckUpdateInv ==
  ASSUME Inv, NEW a \in Acks, AckUpdate(a)
  PROVE  Inv' /\ Onward
  <1>1. /\ Core /\ a \in Requests /\ a \notin Saves /\ a \notin Toggles /\ a \notin Edits
        /\ a \notin Recalls /\ On(a) \in Msgs /\ Row(On(a)) \in Rows
    BY Kinds, RowsIn DEF Inv, Core
  <1>2. Only(a) /\ Moves(a) /\ Plain' /\ Stages'
    BY AckUpdateMoves DEF Inv
  <1>3. UNCHANGED <<read, screen, told>> /\ pc[a] = "new"
    BY DEF AckUpdate
  <1>4. Pooled(a) /\ Onward
    BY <1>1, <1>2, AckUpdatePooled DEF Pooled
  <1>5. /\ \A p \in Requests \ {a} : pc'[p] = pc[p] /\ (p \in doubt' <=> p \in doubt)
        /\ shared \subseteq shared' /\ raced \subseteq raced' /\ unpushed \subseteq unpushed'
    BY <1>2 DEF Only
  <1>6. Stays(None)
    BY <1>1, <1>2, StaysNone
  <1>7. ASSUME UNCHANGED <<db, tx, doubt>>, pc'[a] = "failed"
        PROVE  Inv'
    <2>1. Alone' /\ Same
      BY <1>6, <1>7, StillAlone DEF Inv
    <2> QED
      BY <1>1, <1>2, <1>3, <1>4, <1>7, <2>1, Silent
  <1>8. ASSUME NEW c \in Conns, Acquire(a, c), Unlocked(c, Row(On(a))),
               Counts(On(a), Cur(c, Row(On(a)))), NEW v,
               v = [Cur(c, Row(On(a))) EXCEPT !.delivered = Cur(c, Row(On(a))).delivered + 1],
               Write(c, Row(On(a)), v),
               pc'[a] = "updated" \/ (pc'[a] = "failed" /\ a \in doubt')
        PROVE  Inv'
    <2>1. /\ v.recalled = Cur(c, Row(On(a))).recalled /\ v.body = Cur(c, Row(On(a))).body
          /\ v.delivered = Cur(c, Row(On(a))).delivered + 1
      BY <1>1, <1>8, AckedGood DEF Core
    <2>2. ASSUME shared' = {}
          PROVE  /\ Stored(c, Row(On(a)), v) /\ \A d \in Conns : Row(On(a)) \notin Writes(d)
                 /\ db'[Row(On(a))].delivered = db[Row(On(a))].delivered + 1
                 /\ \A m \in Msgs : /\ db'[Row(m)].body = db[Row(m)].body
                                    /\ db'[Row(m)].recalled = db[Row(m)].recalled
                                    /\ m # On(a) => db'[Row(m)].delivered = db[Row(m)].delivered
                                    /\ db'[Reaction(m)] = db[Reaction(m)]
      <3>1. Stored(c, Row(On(a)), v) /\ \A d \in Conns : Row(On(a)) \notin Writes(d)
        BY <1>1, <1>8, <2>2, FreshlyStored
      <3>2. Cur(c, Row(On(a))) = db[Row(On(a))]
        BY <3>1 DEF Cur
      <3>3. db'[Row(On(a))] = v
        BY <3>1 DEF Stored
      <3>4. \A m \in Msgs : /\ m # On(a) => db'[Row(m)] = db[Row(m)]
                            /\ db'[Reaction(m)] = db[Reaction(m)]
        BY <3>1, RowsIn, RowsApart DEF Stored
      <3> QED
        BY <2>1, <3>1, <3>2, <3>3, <3>4
    <2>3. Alone'
      <3>1. shared' = {} => Alone'
        BY <1>1, <1>6, <2>2, StoredAlone DEF Inv
      <3> QED
        BY <3>1 DEF Alone
    <2>4. Remembered'
      BY <1>1, <1>2, <1>3, <1>4, OthersRemember DEF Inv
    <2>5. Reported'
      <3>1. ASSUME NEW p \in Recalls \ shared', Answered(p)' PROVE db'[Row(On(p))].recalled
        <4>1. pc'[p] = pc[p] /\ On(p) \in Msgs /\ p \notin shared
          BY <1>1, <1>5, Kinds
        <4>2. db[Row(On(p))].recalled
          BY <3>1, <4>1 DEF Inv, Reported, Answered
        <4> QED
          BY <1>4, <4>1, <4>2 DEF Onward, Succeeds
      <3>2. ASSUME shared' = {}, NEW m \in Msgs PROVE Counted(m)'
        <4>1. Counted(m) /\ told'[m] = told[m]
          BY <1>3, <1>5, <3>2 DEF Inv, Reported
        <4>2. told[m] \in Nat /\ db[Row(m)].delivered \in Nat
          BY DEF Inv, Plain, Lawful, GoodRows, Good, MessageRows
        <4>3. \A b \in Acks : b # a => pc'[b] = pc[b] /\ (b \in doubt' <=> b \in doubt)
          BY <1>5, Kinds
        <4>4. CASE m = On(a)
          <5>1. db'[Row(m)].delivered = db[Row(m)].delivered + 1
            BY <2>2, <3>2, <4>4
          <5>2. ~AllHeard(m)'
            BY <1>8, <4>4 DEF AllHeard, Heard
          <5> QED
            BY <4>1, <4>2, <5>1, <5>2 DEF Counted
        <4>5. CASE m # On(a)
          <5>1. db'[Row(m)].delivered = db[Row(m)].delivered
            BY <2>2, <3>2, <4>5
          <5>2. \A b \in Acks : On(b) = m => pc'[b] = pc[b] /\ (b \in doubt' <=> b \in doubt)
            BY <4>3, <4>5
          <5>3. AllHeard(m)' <=> AllHeard(m)
            BY <5>2 DEF AllHeard, Heard
          <5> QED
            BY <4>1, <5>1, <5>2, <5>3 DEF Counted
        <4> QED
          BY <4>4, <4>5
      <3> QED
        BY <3>1, <3>2 DEF Reported
    <2>6. Toggled'
      <3>1. \A t \in Toggles : pc'[t] = pc[t] /\ (t \in doubt' <=> t \in doubt)
        BY <1>1, <1>5, Kinds
      <3> QED
        BY <1>3, <1>5, <2>2, <3>1, ToggledSame DEF Inv
    <2>7. Screens'
      <3>1. \A p \in Edits \cup Recalls : pc'[p] = pc[p]
        BY <1>1, <1>5, Kinds
      <3> QED
        BY <1>3, <1>5, <2>2, <3>1, ScreensSame DEF Inv
    <2> QED
      BY <1>1, <1>2, <1>4, <2>3, <2>4, <2>5, <2>6, <2>7, Assembled
  <1>9. \/ UNCHANGED <<db, tx, doubt>> /\ pc'[a] = "failed"
        \/ \E c \in Conns :
             /\ Acquire(a, c) /\ Unlocked(c, Row(On(a))) /\ Counts(On(a), Cur(c, Row(On(a))))
             /\ Write(c, Row(On(a)), [Cur(c, Row(On(a))) EXCEPT
                                        !.delivered = Cur(c, Row(On(a))).delivered + 1])
             /\ pc'[a] = "updated" \/ (pc'[a] = "failed" /\ a \in doubt')
    <2>1. PICK c \in Conns :
            /\ Acquire(a, c) /\ Unlocked(c, Row(On(a)))
            /\ \/ UNCHANGED <<db, tx, doubt>> /\ Go(a, "failed")
               \/ /\ Counts(On(a), Current(c)[Row(On(a))])
                  /\ Write(c, Row(On(a)), [Current(c)[Row(On(a))] EXCEPT
                                             !.delivered = Current(c)[Row(On(a))].delivered + 1])
                  /\ Go(a, "updated") \/ (Go(a, "failed") /\ Doubt(a))
      BY DEF AckUpdate
    <2>2. Current(c)[Row(On(a))] = Cur(c, Row(On(a)))
      BY <1>1, CurGood DEF Core
    <2>3. /\ Go(a, "updated") => pc'[a] = "updated"
          /\ Go(a, "failed") => pc'[a] = "failed"
          /\ Doubt(a) => a \in doubt'
      BY <1>1 DEF Go, Doubt, Inv, Plain
    <2> QED
      BY <2>1, <2>2, <2>3
  <1> QED
    BY <1>4, <1>7, <1>8, <1>9

\* What an ack reports is what is committed: on a connection of its own its SELECT reads
\* that, and a private message that was delivered was delivered once.
LEMMA AckCount ==
  ASSUME Inv, NEW a \in Acks, pc[a] = "updated", shared = {}, NEW n,
         n = IF On(a) \in Private THEN 1 ELSE Selected(conn[a])[Row(On(a))].delivered
  PROVE  n = db[Row(On(a))].delivered
  <1>1. Core /\ a \in Requests /\ On(a) \in Msgs
    BY Kinds DEF Inv, Core
  <1>2. conn[a] \in Conns /\ conn[a] # None
    BY <1>1, HasConnection, NamesAssumption DEF Core, Working, None, NamesAssumption
  <1>3. \A q \in Edits \cup Saves : conn[q] # conn[a]
    BY <1>1, <1>2, WorksAlone, Kinds
  <1>4. ~tx[conn[a]].open
    BY <1>2, <1>3 DEF Inv, Transactions
  <1>5. Selected(conn[a]) = db
    BY <1>4 DEF Selected
  <1>6. db[Row(On(a))].delivered \in Nat /\ (On(a) \in Private => db[Row(On(a))].delivered <= 1)
    BY <1>1 DEF Inv, Lawful, GoodRows, Good, MessageRows
  <1>7. db[Row(On(a))].delivered > 0
    BY <1>1 DEF Inv, Reported, Counted
  <1>8. On(a) \in Private => db[Row(On(a))].delivered = 1
    BY <1>6, <1>7
  <1> QED
    BY <1>5, <1>8

\* The push of an ack.
LEMMA AckPushInv ==
  ASSUME Inv, NEW a \in Acks, AckPush(a)
  PROVE  Inv' /\ Onward
  <1> PICK n : n = IF On(a) \in Private THEN 1 ELSE Selected(conn[a])[Row(On(a))].delivered
    OBVIOUS
  <1>1. /\ Core /\ a \in Requests /\ a \notin Saves /\ a \notin Toggles /\ a \notin Edits
        /\ a \notin Recalls /\ On(a) \in Msgs
    BY Kinds DEF Inv, Core
  <1>2. Only(a) /\ Moves(a) /\ Plain' /\ Stages'
    BY AckPushMoves DEF Inv
  <1>3. UNCHANGED <<db, tx, read, screen, shared>> /\ pc[a] = "updated"
    BY DEF AckPush
  <1>4. pc'[a] = "done"
    BY <1>1 DEF AckPush, Go, Inv, Plain
  <1>5. Pooled(a) /\ Onward
    BY <1>1, <1>2, <1>3, QuietPooled DEF Pooled
  <1>6. /\ \A p \in Requests \ {a} : pc'[p] = pc[p] /\ (p \in doubt' <=> p \in doubt)
        /\ raced \subseteq raced' /\ unpushed \subseteq unpushed'
    BY <1>2 DEF Only
  <1>7. Alone'
    BY <1>1, <1>2, <1>3, StaysNone, StillAlone DEF Inv
  <1>8. Remembered'
    BY <1>1, <1>2, <1>3, <1>5, OthersRemember DEF Inv
  <1>9. Reported'
    <2>1. ASSUME NEW p \in Recalls \ shared', Answered(p)' PROVE db'[Row(On(p))].recalled
      <3>1. pc'[p] = pc[p]
        BY <1>1, <1>6, Kinds
      <3> QED
        BY <1>3, <2>1, <3>1 DEF Inv, Reported, Answered
    <2>2. ASSUME shared' = {}, NEW m \in Msgs PROVE Counted(m)'
      <3>1. Counted(m) /\ db' = db
        BY <1>3, <2>2 DEF Inv, Reported
      <3>2. told[m] \in Nat /\ db[Row(m)].delivered \in Nat
        BY DEF Inv, Plain, Lawful, GoodRows, Good, MessageRows
      <3>3. \A b \in Acks : b # a => pc'[b] = pc[b] /\ (b \in doubt' <=> b \in doubt)
        BY <1>6, Kinds
      <3>4. CASE m = On(a)
        <4>1. n = db[Row(m)].delivered
          BY <1>3, <2>2, <3>4, AckCount
        <4>2. \/ At(a) = SenderAt(m) /\ told'[m] = n
              \/ told'[m] = told[m] /\ (At(a) # SenderAt(m) \/ a \in doubt')
          BY <1>1, <3>4 DEF AckPush, Doubt, Inv, Plain
        <4>3. AllHeard(m)' => At(a) = SenderAt(m) /\ a \notin doubt'
          BY <1>4, <3>4 DEF AllHeard, Heard
        <4>4. \A b \in Acks : pc'[b] = "updated" => pc[b] = "updated"
          BY <1>4, <3>3
        <4> QED
          BY <3>1, <3>2, <4>1, <4>2, <4>3, <4>4 DEF Counted
      <3>5. CASE m # On(a)
        <4>1. told'[m] = told[m]
          BY <1>1, <3>5 DEF AckPush, Inv, Plain
        <4>2. \A b \in Acks : On(b) = m => pc'[b] = pc[b] /\ (b \in doubt' <=> b \in doubt)
          BY <3>3, <3>5
        <4>3. AllHeard(m)' <=> AllHeard(m)
          BY <4>2 DEF AllHeard, Heard
        <4> QED
          BY <3>1, <4>1, <4>2, <4>3 DEF Counted
      <3> QED
        BY <3>4, <3>5
    <2> QED
      BY <2>1, <2>2 DEF Reported
  <1>10. Toggled'
    <2>1. \A t \in Toggles : pc'[t] = pc[t] /\ (t \in doubt' <=> t \in doubt)
      BY <1>1, <1>6, Kinds
    <2> QED
      BY <1>3, <1>6, <2>1, ToggledSame DEF Inv
  <1>11. Screens'
    <2>1. \A p \in Edits \cup Recalls : pc'[p] = pc[p]
      BY <1>1, <1>6, Kinds
    <2> QED
      BY <1>3, <1>6, <2>1, ScreensSame DEF Inv
  <1> QED
    BY <1>1, <1>2, <1>5, <1>7, <1>8, <1>9, <1>10, <1>11, Assembled

\* The SELECT of a toggle.
LEMMA ToggleReadInv ==
  ASSUME Inv, NEW t \in Toggles, ToggleRead(t)
  PROVE  Inv' /\ Onward
  <1>1. /\ Core /\ t \in Requests /\ t \notin Saves /\ t \notin Edits /\ t \notin Recalls
        /\ t \notin Acks /\ On(t) \in Msgs
    BY Kinds DEF Inv, Core
  <1>2. Only(t) /\ Moves(t) /\ Plain' /\ Stages'
    BY ToggleReadMoves DEF Inv
  <1>3. UNCHANGED <<db, tx, told, screen, doubt>> /\ pc[t] = "new"
    BY DEF ToggleRead
  <1>4. PICK c \in Conns : /\ Acquire(t, c)
                           /\ \/ read' = [read EXCEPT ![t] = Selected(c)[Reaction(On(t))]]
                              \/ /\ read' = [read EXCEPT ![t] = FALSE]
                                 /\ Selected(c)[Reaction(On(t))] => On(t) \in raced'
    BY DEF ToggleRead
  <1>5. pc'[t] = "read"
    BY <1>1 DEF ToggleRead, Go, Inv, Plain
  <1>6. /\ \/ read'[t] = Selected(c)[Reaction(On(t))]
           \/ read'[t] = FALSE /\ (Selected(c)[Reaction(On(t))] => On(t) \in raced')
        /\ \A q \in Edits \cup Toggles : q # t => read'[q] = read[q]
    BY <1>4 DEF Inv, Plain
  <1>7. Pooled(t) /\ Onward
    BY <1>1, <1>2, <1>3, QuietPooled DEF Pooled
  <1>8. Alone' /\ Same
    BY <1>1, <1>2, <1>3, StaysNone, StillAlone DEF Inv
  <1>9. Remembered'
    BY <1>1, <1>2, <1>6, <1>7, OthersRemember DEF Inv
  <1>10. /\ \A p \in Requests \ {t} : pc'[p] = pc[p]
         /\ shared \subseteq shared' /\ raced \subseteq raced' /\ unpushed \subseteq unpushed'
    BY <1>2 DEF Only
  <1>11. Reported'
    <2>1. \A q \in Recalls \ shared' : Answered(q)' => Answered(q)
      BY <1>1, <1>10, Kinds DEF Answered
    <2>2. \A a \in Acks : pc'[a] = pc[a]
      BY <1>1, <1>10, Kinds
    <2> QED
      BY <1>3, <1>7, <1>10, <2>1, <2>2, ReportedSame DEF Inv
  <1>12. Screens'
    <2>1. \A p \in Edits \cup Recalls : pc'[p] = pc[p]
      BY <1>1, <1>10, Kinds
    <2> QED
      BY <1>3, <1>10, <2>1, ScreensSame DEF Inv
  <1>13. Toggled'
    <2>1. SUFFICES ASSUME shared' = {}, NEW m \in Msgs \ raced'
                   PROVE  /\ db'[Reaction(m)] = (Cardinality(Clicks(m)') % 2 = 1)
                          /\ \A u \in Toggles : On(u) = m /\ pc'[u] = "read" => read'[u] = db'[Reaction(m)]
      BY DEF Toggled
    <2>2. Clicks(m)' = Clicks(m)
      BY <1>3, <1>5, <1>10, Kinds DEF Clicks
    <2>3. /\ db[Reaction(m)] = (Cardinality(Clicks(m)) % 2 = 1)
          /\ \A u \in Toggles : On(u) = m /\ pc[u] = "read" => read[u] = db[Reaction(m)]
      BY <1>3, <1>10, <2>1 DEF Inv, Toggled
    <2>4. On(t) = m => read'[t] = db[Reaction(m)]
      <3>1. Selected(c) = db
        BY <1>1, <1>4, <2>1, FreeIsClosed DEF Selected
      <3>2. db[Reaction(m)] \in BOOLEAN
        BY DEF Inv, Lawful, OtherRows
      <3> QED
        BY <1>6, <2>1, <3>1, <3>2
    <2>5. ASSUME NEW u \in Toggles, On(u) = m, pc'[u] = "read" PROVE read'[u] = db'[Reaction(m)]
      BY <1>3, <1>6, <1>10, <2>3, <2>4, <2>5, Kinds
    <2> QED
      BY <1>3, <2>2, <2>3, <2>5
  <1> QED
    BY <1>1, <1>2, <1>7, <1>8, <1>9, <1>11, <1>12, <1>13, Assembled

\* One more element of a finite set of requests makes an odd number of them even, and
\* an even one odd.
LEMMA OneMore ==
  ASSUME NEW S \in SUBSET Requests, NEW t \in Requests, t \notin S
  PROVE  (Cardinality(S \cup {t}) % 2 = 1) <=> ~(Cardinality(S) % 2 = 1)
  <1>1. IsFiniteSet(S)
    BY OpsAssumption, FS_Subset DEF OpsAssumption
  <1>2. Cardinality(S) \in Nat /\ Cardinality(S \cup {t}) = Cardinality(S) + 1
    BY <1>1, FS_AddElement, FS_CardinalityType
  <1> QED
    BY <1>2

\* The write of a toggle.
LEMMA ToggleWriteInv ==
  ASSUME Inv, NEW t \in Toggles, ToggleWrite(t)
  PROVE  Inv' /\ Onward
  <1> PICK c : c = conn[t]
    OBVIOUS
  <1>1. /\ Core /\ t \in Requests /\ t \notin Saves /\ t \notin Edits /\ t \notin Recalls
        /\ t \notin Acks /\ On(t) \in Msgs /\ Reaction(On(t)) \in Rows
    BY Kinds, RowsIn DEF Inv, Core
  <1>2. Only(t) /\ Moves(t) /\ Plain' /\ Stages'
    BY ToggleWriteMoves DEF Inv
  <1>3. UNCHANGED <<told, screen, read, shared>> /\ pc[t] = "read"
    BY DEF ToggleWrite
  <1>4. raced' = IF \E u \in Toggles \ {t} : On(u) = On(t) /\ pc[u] = "read"
                 THEN raced \cup {On(t)} ELSE raced
    BY DEF ToggleWrite
  <1>5. Pooled(t) /\ Onward
    BY <1>1, <1>2, ToggleWritePooled DEF Pooled
  <1>6. /\ \A p \in Requests \ {t} : pc'[p] = pc[p] /\ (p \in doubt' <=> p \in doubt)
        /\ raced \subseteq raced' /\ unpushed \subseteq unpushed'
    BY <1>2 DEF Only
  <1>7. Stays(None)
    BY <1>1, <1>2, StaysNone
  <1>8. ASSUME UNCHANGED <<db, tx, doubt>>, pc'[t] = "failed"
        PROVE  Inv'
    <2>1. Alone' /\ Same
      BY <1>7, <1>8, StillAlone DEF Inv
    <2> QED
      BY <1>1, <1>2, <1>3, <1>5, <1>6, <1>8, <2>1, Silent
  <1>9. ASSUME Write(c, Reaction(On(t)), ~read[t]),
               pc'[t] = "done" \/ (pc'[t] = "failed" /\ t \in doubt')
        PROVE  Inv'
    <2> PICK v : v = ~read[t]
      OBVIOUS
    <2>1. Write(c, Reaction(On(t)), v)
      BY <1>9
    <2>2. ASSUME shared' = {}
          PROVE  /\ Alone'
                 /\ \A x \in Rows : x # Reaction(On(t)) => db'[x] = db[x]
                 /\ db'[Reaction(On(t))] = v
      <3>1. c \in Conns /\ c # None
        BY <1>1, <1>2, <1>3, WorkingHas DEF Working
      <3>2. \A q \in Edits \cup Saves : conn[q] # c
        BY <1>1, <1>3, <2>2, <3>1, WorksAlone, Kinds
      <3>3. ~tx[c].open
        BY <3>1, <3>2 DEF Inv, Transactions
      <3>4. Stored(c, Reaction(On(t)), v)
        BY <1>1, <2>1, <3>1, <3>3, WriteDoes DEF Core, Kept
      <3>5. \A d \in Conns : Reaction(On(t)) \notin Writes(d)
        BY <1>1, <1>3, <2>2 DEF Inv, Alone, AloneAt
      <3> QED
        BY <1>1, <1>7, <2>2, <3>1, <3>4, <3>5, StoredAlone DEF Inv
    <2>3. Alone'
      BY <2>2 DEF Alone
    <2>4. shared' = {} => \A m \in Msgs : db'[Row(m)] = db[Row(m)]
      BY <2>2, RowsIn, RowsApart
    <2>5. Remembered'
      BY <1>1, <1>2, <1>3, <1>5, OthersRemember DEF Inv
    <2>6. Reported'
      <3>1. \A q \in Recalls \ shared' : Answered(q)' => Answered(q)
        BY <1>1, <1>6, Kinds DEF Answered
      <3>2. \A a \in Acks : pc'[a] = pc[a] /\ (a \in doubt' <=> a \in doubt)
        BY <1>1, <1>6, Kinds
      <3> QED
        BY <1>3, <1>5, <2>4, <3>1, <3>2, ReportedSame DEF Inv
    <2>7. Screens'
      <3>1. \A p \in Edits \cup Recalls : pc'[p] = pc[p]
        BY <1>1, <1>6, Kinds
      <3> QED
        BY <1>3, <1>6, <2>4, <3>1, ScreensSame DEF Inv
    <2>8. Toggled'
      <3>1. SUFFICES ASSUME shared' = {}, NEW m \in Msgs \ raced'
                     PROVE  /\ db'[Reaction(m)] = (Cardinality(Clicks(m)') % 2 = 1)
                            /\ \A u \in Toggles : On(u) = m /\ pc'[u] = "read" => read'[u] = db'[Reaction(m)]
        BY DEF Toggled
      <3>2. /\ db[Reaction(m)] = (Cardinality(Clicks(m)) % 2 = 1)
            /\ \A u \in Toggles : On(u) = m /\ pc[u] = "read" => read[u] = db[Reaction(m)]
        BY <1>3, <1>6, <3>1 DEF Inv, Toggled
      <3>3. CASE m # On(t)
        <4>1. db'[Reaction(m)] = db[Reaction(m)]
          BY <2>2, <3>1, <3>3, RowsIn, RowsApart
        <4>2. \A u \in Toggles : On(u) = m => pc'[u] = pc[u] /\ (u \in doubt' <=> u \in doubt)
          BY <1>6, <3>3, Kinds
        <4>3. Clicks(m)' = Clicks(m)
          BY <4>2 DEF Clicks
        <4> QED
          BY <1>3, <3>2, <4>1, <4>2, <4>3
      <3>4. CASE m = On(t)
        <4>1. \A u \in Toggles \ {t} : On(u) = m =>
                /\ pc[u] # "read" /\ pc'[u] = pc[u]
                /\ u \in doubt' <=> u \in doubt
          BY <1>4, <1>6, <3>1, <3>4, Kinds
        <4>2. \A u \in Toggles : On(u) = m => pc'[u] # "read"
          BY <1>9, <4>1
        <4>3. Clicks(m)' = Clicks(m) \cup {t} /\ t \notin Clicks(m) /\ Clicks(m) \subseteq Requests
          <5>1. t \notin doubt
            BY <1>3 DEF Inv, Stages
          <5> QED
            BY <1>3, <1>9, <3>4, <4>1, <5>1, Kinds DEF Clicks
        <4>4. (Cardinality(Clicks(m)') % 2 = 1) <=> ~(Cardinality(Clicks(m)) % 2 = 1)
          BY <1>1, <4>3, OneMore
        <4>5. read[t] = (Cardinality(Clicks(m)) % 2 = 1)
          BY <1>3, <3>2, <3>4
        <4>6. db'[Reaction(m)] = ~read[t]
          BY <2>2, <3>1, <3>4
        <4>7. db'[Reaction(m)] = (Cardinality(Clicks(m)') % 2 = 1)
          BY <4>4, <4>5, <4>6
        <4> QED
          BY <4>2, <4>7
      <3> QED
        BY <3>3, <3>4
    <2> QED
      BY <1>1, <1>2, <1>5, <2>3, <2>5, <2>6, <2>7, <2>8, Assembled
  <1>10. \/ UNCHANGED <<db, tx, doubt>> /\ pc'[t] = "failed"
         \/ /\ Write(c, Reaction(On(t)), ~read[t])
            /\ pc'[t] = "done" \/ (pc'[t] = "failed" /\ t \in doubt')
    BY <1>1 DEF ToggleWrite, Doubt, Go, Inv, Plain
  <1> QED
    BY <1>5, <1>8, <1>9, <1>10

\* Time passes, or nothing happens.
LEMMA AgeInv ==
  ASSUME Inv, age' \in 0..2,
         UNCHANGED <<pool, pc, kind, conn, read, screen, told, faults, ghosts>>
  PROVE  Inv' /\ Onward
  <1>1. UNCHANGED <<db, tx, free, pc, kind, conn, read, screen, told, faults, shared, doubt,
                  unpushed, raced>>
    BY DEF pool, ghosts
  <1>2. Store' /\ Lawful' /\ Onward
    BY <1>1, LawfulStill DEF Inv
  <1>3. Plain' /\ Stages' /\ Connections' /\ Transactions' /\ Remembered'
    BY <1>1 DEF Inv, Plain, Stages, Connections, Transactions, Remembered
  <1>4. EditsOwn'
    BY <1>1 DEF Inv, EditsOwn, EditOwns, Writes, Wrote, Answered
  <1>5. SavesOwn'
    BY <1>1 DEF Inv, SavesOwn, SaveOwns, Writes
  <1>6. Bodied'
    BY <1>1 DEF Inv, Bodied, Vouched, Writes, Wrote
  <1>7. Alone'
    BY <1>1 DEF Inv, Alone, AloneAt, Writes, Wrote
  <1>8. Reported'
    BY <1>1 DEF Inv, Reported, Counted, AllHeard, Heard, Answered
  <1>9. Screens'
    BY <1>1 DEF Inv, Screens, Shown
  <1>10. Toggled'
    BY <1>1 DEF Inv, Toggled, Clicks
  <1> QED
    BY <1>2, <1>3, <1>4, <1>5, <1>6, <1>7, <1>8, <1>9, <1>10 DEF Inv

\* Every step keeps the invariant, and undoes neither a recall nor an edit.
LEMMA NextInv ==
  ASSUME Inv, [Next]_vars
  PROVE  Inv' /\ Onward
  <1>1. CASE Older
    <2>1. age' \in 0..2
      BY <1>1 DEF Older, Inv, Plain
    <2> QED
      BY <1>1, <2>1, AgeInv DEF Older
  <1>2. CASE UNCHANGED vars
    <2>1. age' \in 0..2
      BY <1>2 DEF vars, Inv, Plain
    <2> QED
      BY <1>2, <2>1, AgeInv DEF vars
  <1>3. CASE \E q \in Requests : NoConnection(q) \/ GuardEnds(q)
    BY <1>3, NoConnectionInv, GuardEndsInv
  <1>4. CASE \E e \in Edits : \/ EditBegin(e) \/ EditUpdate(e) \/ EditLog(e)
                              \/ EditCommit(e) \/ EditPush(e)
    BY <1>4, EditBeginInv, EditUpdateInv, EditLogInv, EditCommitInv, EditPushInv
  <1>5. CASE \E q \in Recalls : Recall(q) \/ RecallPush(q)
    BY <1>5, RecallInv, RecallPushInv
  <1>6. CASE \E s \in Saves : SaveBegin(s) \/ SaveInsert(s) \/ SaveCommit(s)
    BY <1>6, SaveBeginInv, SaveInsertInv, SaveCommitInv
  <1>7. CASE \E t \in Toggles : ToggleRead(t) \/ ToggleWrite(t)
    BY <1>7, ToggleReadInv, ToggleWriteInv
  <1>8. CASE \E a \in Acks : AckUpdate(a) \/ AckPush(a)
    BY <1>8, AckUpdateInv, AckPushInv
  <1> QED
    BY <1>1, <1>2, <1>3, <1>4, <1>5, <1>6, <1>7, <1>8 DEF Next

\* What the rows hold at first.
LEMMA FirstRows ==
  ASSUME Init
  PROVE  /\ \A m \in Msgs : db[Row(m)] = Fresh /\ db[Reaction(m)] = FALSE
         /\ \A e \in Edits : db[EditRow(e)] = None
         /\ \A s \in Saves : db[SaveRow(s)] = FALSE /\ db[OutboxRow(s)] = FALSE
  <1>1. \A r \in Rows : db[r] = CASE r[1] = "message" -> Fresh
                                  [] r[1] = "edit" -> None
                                  [] OTHER -> FALSE
    BY DEF Init
  <1>2. /\ \A m \in Msgs : Row(m)[1] = "message" /\ Reaction(m)[1] = "reaction"
        /\ \A e \in Edits : EditRow(e)[1] = "edit"
        /\ \A s \in Saves : SaveRow(s)[1] = "saved" /\ OutboxRow(s)[1] = "outbox"
    BY DEF Row, Reaction, EditRow, SaveRow, OutboxRow
  <1> QED
    BY <1>1, <1>2, RowsIn

\* It holds at first.
LEMMA InitInv ==
  ASSUME Init
  PROVE  Inv
  <1>1. /\ DOMAIN db = Rows /\ tx = [c \in Conns |-> Idle]
        /\ shared = {} /\ doubt = {} /\ unpushed = {} /\ raced = {}
        /\ \A q \in Requests : pc[q] = "new" /\ conn[q] = None
        /\ \A m \in Msgs : told[m] = 0 /\ screen[m] = [body |-> First, recalled |-> FALSE]
    BY DEF Init
  <1>2. DOMAIN tx = Conns /\ \A c \in Conns : tx[c] = [open |-> FALSE, snap |-> <<>>, writes |-> <<>>]
    BY <1>1 DEF Idle
  <1>3. \A c \in Conns : ~tx[c].open /\ tx[c].open \in BOOLEAN /\ Writes(c) = {}
                         /\ DOMAIN tx[c] = {"open", "snap", "writes"}
    <2>1. SUFFICES ASSUME NEW c \in Conns
                   PROVE  ~tx[c].open /\ tx[c].open \in BOOLEAN /\ Writes(c) = {}
                          /\ DOMAIN tx[c] = {"open", "snap", "writes"}
      OBVIOUS
    <2>2. tx[c] = [open |-> FALSE, snap |-> <<>>, writes |-> <<>>]
      BY <1>2
    <2>3. tx[c].open = FALSE /\ DOMAIN tx[c] = {"open", "snap", "writes"}
      BY <2>2
    <2>4. Writes(c) = {}
      BY <2>2 DEF Writes
    <2> QED
      BY <2>3, <2>4
  <1>4. Store
    BY <1>1, <1>2, <1>3 DEF Store
  <1>5. /\ Fresh \in MessageRows /\ Fresh.body = First /\ Fresh.original = None
        /\ Fresh.recalled = FALSE /\ Fresh.delivered = 0
    BY DEF Fresh, MessageRows, Bodies
  <1>6. Lawful
    <2>1. Locks /\ Keeps /\ OtherWrites /\ Snapped
      BY <1>3 DEF Locks, Keeps, OtherWrites, Snapped
    <2>2. \A m \in Msgs : Good(m, Fresh)
      <3>1. 0 <= 1
        OBVIOUS
      <3> QED
        BY <1>5, <3>1 DEF Good
    <2>3. GoodRows
      BY <1>3, <2>2, FirstRows DEF GoodRows
    <2>4. OtherRows
      BY FirstRows DEF OtherRows
    <2> QED
      BY <2>1, <2>3, <2>4 DEF Lawful
  <1>7. Plain
    BY OpsAssumption DEF Init, Plain, Bodies, OpsAssumption
  <1>8. Stages /\ Connections /\ Remembered
    BY <1>1, Kinds DEF Stages, Idling, Connections, Remembered, Working
  <1>9. Transactions
    BY <1>3 DEF Transactions
  <1>10. EditsOwn
    BY <1>1, <1>3, FirstRows, Kinds DEF EditsOwn, EditOwns, Working, Answered
  <1>11. SavesOwn
    BY <1>1, <1>3, FirstRows, Kinds DEF SavesOwn, SaveOwns, Working
  <1>12. Bodied
    BY <1>3, <1>5, FirstRows, NamesAssumption DEF Bodied, First, NamesAssumption
  <1>13. Alone
    BY <1>3 DEF Alone, AloneAt
  <1>14. Reported
    <2>1. \A m \in Msgs : told[m] = 0 /\ db[Row(m)].delivered = 0
      BY <1>1, <1>5, FirstRows
    <2>2. \A q \in Requests : pc[q] = "new"
      BY <1>1
    <2> QED
      BY <2>1, <2>2, Kinds DEF Reported, Counted, Answered
  <1>15. Screens
    <2>1. \A m \in Msgs : screen[m].body = First /\ screen[m].recalled = FALSE
      BY <1>1
    <2>2. \A m \in Msgs : db[Row(m)].body = First /\ db[Row(m)].recalled = FALSE
      BY <1>5, FirstRows
    <2>3. \A e \in Edits : pc[e] # "saved"
      BY <1>1, Kinds
    <2> QED
      BY <2>1, <2>2, <2>3 DEF Screens, Shown
  <1>16. Toggled
    <2>1. \A m \in Msgs : Clicks(m) = {}
      BY <1>1, Kinds DEF Clicks
    <2>2. Cardinality({}) = 0
      BY FS_EmptySet
    <2>3. \A t \in Toggles : pc[t] # "read"
      BY <1>1, Kinds
    <2>4. \A m \in Msgs : db[Reaction(m)] = (Cardinality(Clicks(m)) % 2 = 1)
      <3>1. ~(0 % 2 = 1)
        OBVIOUS
      <3>2. \A m \in Msgs : ~(Cardinality(Clicks(m)) % 2 = 1)
        BY <2>1, <2>2, <3>1
      <3>3. \A m \in Msgs : db[Reaction(m)] = FALSE
        BY FirstRows
      <3> QED
        BY <3>2, <3>3
    <2> QED
      BY <2>3, <2>4 DEF Toggled
  <1> QED
    BY <1>4, <1>6, <1>7, <1>8, <1>9, <1>10, <1>11, <1>12, <1>13, <1>14, <1>15, <1>16 DEF Inv

-------------------------------------------------------------------------------
(* What follows.                                                           *)

\* The tables.
LEMMA RowsAre ==
  ASSUME NEW r \in Rows
  PROVE  \/ \E m \in Msgs : r = Row(m) \/ r = Reaction(m)
         \/ \E e \in Edits : r = EditRow(e)
         \/ \E s \in Saves : r = SaveRow(s) \/ r = OutboxRow(s)
  BY DEF Rows, Row, Reaction, EditRow, SaveRow, OutboxRow

\* What fits into them.
LEMMA FitsIf ==
  ASSUME NEW v
  PROVE  /\ \A m : Good(m, v) => Fits(Row(m), v)
         /\ \A m : v \in BOOLEAN => Fits(Reaction(m), v)
         /\ \A e : v \in Bodies \cup {None} => Fits(EditRow(e), v)
         /\ \A s : v \in BOOLEAN => Fits(SaveRow(s), v) /\ Fits(OutboxRow(s), v)
  <1>1. /\ \A m : Row(m)[1] = "message" /\ Row(m)[2] = m /\ Reaction(m)[1] = "reaction" /\ EditRow(m)[1] = "edit"
        /\ \A m : SaveRow(m)[1] = "saved" /\ OutboxRow(m)[1] = "outbox"
    BY DEF Row, Reaction, EditRow, SaveRow, OutboxRow
  <1> QED
    BY <1>1 DEF Fits, Good

\* The inductive invariant holds of the types too.
LEMMA InvTypeOK ==
  ASSUME Inv
  PROVE  TypeOK
  <1>1. \A r \in Rows : Fits(r, db[r])
    <2>1. SUFFICES ASSUME NEW r \in Rows PROVE Fits(r, db[r])
      OBVIOUS
    <2>2. ASSUME NEW m \in Msgs PROVE Fits(Row(m), db[Row(m)]) /\ Fits(Reaction(m), db[Reaction(m)])
      <3>1. Good(m, db[Row(m)]) /\ db[Reaction(m)] \in BOOLEAN
        BY DEF Inv, Lawful, GoodRows, OtherRows
      <3> QED
        BY <3>1, FitsIf
    <2>3. ASSUME NEW e \in Edits PROVE Fits(EditRow(e), db[EditRow(e)])
      BY FitsIf DEF Inv, Lawful, OtherRows
    <2>4. ASSUME NEW s \in Saves
          PROVE  Fits(SaveRow(s), db[SaveRow(s)]) /\ Fits(OutboxRow(s), db[OutboxRow(s)])
      BY FitsIf DEF Inv, Lawful, OtherRows
    <2> QED
      BY <2>2, <2>3, <2>4, RowsAre
  <1>2. ASSUME NEW c \in Conns, NEW r \in Writes(c) PROVE Fits(r, Wrote(c, r))
    <2>1. r \in Rows
      BY DEF Inv, Store
    <2>2. ASSUME NEW m \in Msgs, r = Row(m) PROVE Fits(r, Wrote(c, r))
      BY <2>2, FitsIf DEF Inv, Lawful, GoodRows
    <2>3. ASSUME NEW m \in Msgs, r = Reaction(m) PROVE Fits(r, Wrote(c, r))
      BY <2>3, FitsIf DEF Inv, Lawful, OtherWrites
    <2>4. ASSUME NEW e \in Edits, r = EditRow(e) PROVE Fits(r, Wrote(c, r))
      BY <2>4, FitsIf DEF Inv, Lawful, OtherWrites
    <2>5. ASSUME NEW s \in Saves, r = SaveRow(s) \/ r = OutboxRow(s) PROVE Fits(r, Wrote(c, r))
      <3>1. Wrote(c, r) \in BOOLEAN
        BY <2>5 DEF Inv, Lawful, OtherWrites
      <3> QED
        BY <2>5, <3>1, FitsIf
    <2> QED
      BY <2>1, <2>2, <2>3, <2>4, <2>5, RowsAre
  <1>3. DOMAIN db = Rows /\ DOMAIN tx = Conns
    BY DEF Inv, Store
  <1>4. \A c \in Conns : /\ DOMAIN tx[c] = {"open", "snap", "writes"}
                         /\ tx[c].open \in BOOLEAN
                         /\ DOMAIN tx[c].writes \subseteq Rows
                         /\ \A r \in DOMAIN tx[c].writes : Fits(r, tx[c].writes[r])
    BY <1>2 DEF Inv, Store, Writes, Wrote
  <1> QED
    BY <1>1, <1>3, <1>4 DEF TypeOK, Inv, Plain

\* Every state of a behaviour satisfies the inductive invariant.
THEOREM Safety == Spec => []Inv
  <1>1. Init => Inv
    BY InitInv
  <1>2. Inv /\ [Next]_vars => Inv'
    BY NextInv
  <1> QED
    BY <1>1, <1>2, PTL DEF Spec

\* Type correctness: every row, committed or written by an open transaction, holds
\* what its table holds, and the handlers, the pool and the screens have their types.
THEOREM TypeCorrect == Spec => []TypeOK
  <1>1. Inv => TypeOK
    BY InvTypeOK
  <1> QED
    BY <1>1, Safety, PTL

\* ToldStands: what the handlers confirmed, pushed, acked and reported is in MySQL, and
\* what they refused is not, unless the answer of the last statement was lost or the
\* request shared its connection; a sender that could hear of every ack knows of all
\* deliveries.
THEOREM ToldStandsAlways == Spec => []ToldStands
  <1>1. Inv => ToldStands
    <2>1. SUFFICES ASSUME Inv PROVE ToldStands
      OBVIOUS
    <2>2. \A e \in Edits \ shared : /\ Answered(e) => db[EditRow(e)] # None
                                    /\ pc[e] = "failed" /\ e \notin doubt => db[EditRow(e)] = None
      BY <2>1 DEF Inv, EditsOwn, EditOwns, Answered
    <2>3. \A s \in Saves \ shared :
            /\ pc[s] = "done" => db[SaveRow(s)] /\ db[OutboxRow(s)]
            /\ pc[s] = "failed" /\ s \notin doubt => ~db[SaveRow(s)] /\ ~db[OutboxRow(s)]
      BY <2>1 DEF Inv, SavesOwn, SaveOwns
    <2>4. ASSUME shared = {}, NEW m \in Msgs
          PROVE  /\ told[m] <= db[Row(m)].delivered
                 /\ Quiet(m) /\ (\A a \in Acks : On(a) = m /\ pc[a] # "new" => Heard(a))
                      => told[m] = db[Row(m)].delivered
      <3>1. Counted(m)
        BY <2>1, <2>4 DEF Inv, Reported
      <3>2. Quiet(m) => \A a \in Acks : On(a) = m => pc[a] # "updated"
        BY Kinds DEF Quiet
      <3> QED
        BY <3>1, <3>2 DEF Counted, AllHeard
    <2> QED
      BY <2>1, <2>2, <2>3, <2>4 DEF Inv, Reported, ToldStands
  <1> QED
    BY <1>1, Safety, PTL

\* TransactionsWhole: the body and its row in message_edits, a message and its row in
\* the outbox, are committed together, unless a connection was shared.
THEOREM TransactionsWholeAlways == Spec => []TransactionsWhole
  <1>1. Inv => TransactionsWhole
    <2>1. SUFFICES ASSUME Inv PROVE TransactionsWhole
      OBVIOUS
    <2>2. ASSUME NEW m \in Msgs, \A e \in shared \cap Edits : On(e) # m PROVE Audited(m)
      <3>1. db[Row(m)].body \in Edits \cup {First}
        BY <2>1 DEF Inv, Lawful, GoodRows, Good, MessageRows, Bodies
      <3>2. ASSUME db[Row(m)].body \in Edits
            PROVE  db[EditRow(db[Row(m)].body)] # None
        BY <2>1, <2>2, <3>2 DEF Inv, Bodied, Vouched
      <3> QED
        BY <3>1, <3>2 DEF Audited
    <2>3. ASSUME NEW s \in Saves \ shared PROVE SaveWhole(s)
      <3>1. db[SaveRow(s)] \in BOOLEAN /\ db[OutboxRow(s)] \in BOOLEAN
        BY <2>1 DEF Inv, Lawful, OtherRows
      <3>2. db[SaveRow(s)] <=> db[OutboxRow(s)]
        BY <2>1 DEF Inv, SavesOwn, SaveOwns
      <3> QED
        BY <3>1, <3>2 DEF SaveWhole
    <2> QED
      BY <2>2, <2>3 DEF TransactionsWhole
  <1> QED
    BY <1>1, Safety, PTL

\* OriginalIsFirst: original_body is the body that was sent, for any number of
\* edits at once, on connections that are shared too.
THEOREM OriginalIsFirstAlways == Spec => []OriginalIsFirst
  <1>1. Inv => OriginalIsFirst
    BY DEF Inv, Lawful, GoodRows, Good, OriginalIsFirst
  <1> QED
    BY <1>1, Safety, PTL

\* RecallIsFinal: no step of a handler edits a recalled message or brings it back,
\* on shared connections neither.
THEOREM RecallFinal == Spec => RecallIsFinal
  <1>1. Inv /\ [Next]_vars =>
          [\A m \in Msgs : db[Row(m)].recalled =>
             db'[Row(m)].recalled /\ db'[Row(m)].body = db[Row(m)].body]_vars
    <2>1. SUFFICES ASSUME Inv, [Next]_vars
                   PROVE  \A m \in Msgs : db[Row(m)].recalled =>
                            db'[Row(m)].recalled /\ db'[Row(m)].body = db[Row(m)].body
      OBVIOUS
    <2>2. Onward
      BY <2>1, NextInv
    <2> QED
      BY <2>2 DEF Onward, Succeeds
  <1> QED
    BY <1>1, Safety, PTL DEF Spec, RecallIsFinal

\* ScreenFollows: when nothing is under way on a message, its recipient's screen has
\* what MySQL has, but for the changes whose push went to another instance or nowhere.
THEOREM ScreenFollowsAlways == Spec => []ScreenFollows
  <1>1. Inv => ScreenFollows
    <2>1. SUFFICES ASSUME Inv, NEW m \in Msgs \ unpushed, Quiet(m), shared = {}
                   PROVE  /\ screen[m].body = db[Row(m)].body
                          /\ m \in ToFriend => screen[m].recalled = db[Row(m)].recalled
      BY DEF ScreenFollows
    <2>2. Shown(m)
      BY <2>1 DEF Inv, Screens
    <2>3. \A q \in Edits \cup Recalls : On(q) = m => pc[q] # "saved"
      BY <2>1, Kinds DEF Quiet
    <2>4. screen[m].recalled \in BOOLEAN /\ db[Row(m)].recalled \in BOOLEAN
      BY <2>1 DEF Inv, Plain, Lawful, GoodRows, Good, MessageRows
    <2>5. m \in ToFriend => (screen[m].recalled <=> db[Row(m)].recalled)
      BY <2>2, <2>3 DEF Shown
    <2>6. m \in ToFriend => screen[m].recalled = db[Row(m)].recalled
      BY <2>4, <2>5
    <2> QED
      BY <2>2, <2>3, <2>6 DEF Shown
  <1> QED
    BY <1>1, Safety, PTL

\* TogglesExplained: a reaction is set after an odd number of clicks that took effect,
\* answered or not, unless two toggles overlapped between their SELECT and their write,
\* or a SELECT failed on a reaction that was set.
THEOREM TogglesExplainedAlways == Spec => []TogglesExplained
  <1>1. Inv => TogglesExplained
    BY DEF Inv, Toggled, Clicks, TogglesExplained
  <1> QED
    BY <1>1, Safety, PTL
===============================================================================
