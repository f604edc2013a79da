------------------------------ MODULE MessageOps ------------------------------
(***************************************************************************)
(* What happens to a message after it was sent: edit, recall, reaction and *)
(* delivery ack, beside the saving of new messages, on ChatServer          *)
(* instances that share one MySQL.  Edits, reactions and acks are handled  *)
(* on the event loop of their instance, recalls and saves on its workers;  *)
(* all of them take connections from the pool of the instance.  Most       *)
(* services give the connection back to the pool before the guard of an    *)
(* uncommitted transaction is destroyed, so that another handler may run   *)
(* its statements inside that transaction.  A statement or a COMMIT that    *)
(* fails may have taken effect all the same, when only its answer is lost.  *)
(* A push reaches the sessions of the instance that sends it and no other.  *)
(***************************************************************************)
EXTENDS Naturals, FiniteSets, MySQLPool

CONSTANTS
  Msgs, Private,    \* messages in MySQL; the others are group messages
  ToFriend,         \* messages whose recipient is a friend of the sender
  Edits, Recalls, Saves, Toggles, Acks,   \* requests
  On(_),            \* the message a request is about
  At(_),            \* the instance that handles it
  PoolOf(_),        \* the connections of an instance
  Seat(_),          \* the instance the recipient of a message has a session at
  SenderAt(_),      \* the instance its sender has a session at
  MaxRequests,      \* bound: requests that come in
  MaxFaults         \* bound: connections and statements that fail

Loop == Edits \cup Toggles \cup Acks
Requests == Loop \cup Recalls \cup Saves

ASSUME OpsAssumption ==
  /\ Private \subseteq Msgs /\ ToFriend \subseteq Msgs
  /\ \A q \in Requests : PoolOf(At(q)) \subseteq Conns
  /\ \A q \in Requests \ Saves : On(q) \in Msgs
  /\ MaxRequests \in Nat /\ MaxFaults \in Nat
  /\ IsFiniteSet(Requests)

\* The kinds of requests are apart, and neither an edit nor a connection is a
\* word of the model.
ASSUME NamesAssumption ==
  /\ Edits \cap (Recalls \cup Saves \cup Toggles \cup Acks) = {}
  /\ Recalls \cap (Saves \cup Toggles \cup Acks) = {}
  /\ Saves \cap (Toggles \cup Acks) = {}
  /\ Toggles \cap Acks = {}
  /\ Edits \cap {"none", "first"} = {}
  /\ "none" \notin Conns

VARIABLES
  pc,       \* how far a request is
  kind,     \* the table that editMessage is called for
  conn,     \* the connection a request uses, or its guard still has
  read,     \* what its SELECT returned
  age,      \* of the messages: 0, 1 after two minutes, 2 after fifteen
  screen,   \* what the recipient's client shows
  told,     \* deliveries of a message that its sender was told of
  faults,
  shared,   \* ghost: requests that used a connection together
  doubt,    \* ghost: requests that took effect and whose client is not told so,
            \* because an answer of MySQL was lost
  unpushed, \* ghost: messages with a change that was not pushed to the recipient
  raced     \* ghost: messages with a reaction that was toggled on a wrong reading

pool == <<db, tx, free>>
ghosts == <<shared, doubt, unpushed, raced>>
vars == <<pool, pc, kind, conn, read, age, screen, told, faults, ghosts>>

None == "none"
First == "first"

Row(m) == <<"message", m>>
EditRow(e) == <<"edit", e>>
Reaction(m) == <<"reaction", m>>    \* of one user with one emoji
SaveRow(s) == <<"saved", s>>
OutboxRow(s) == <<"outbox", s>>

Rows == ({"message", "reaction"} \X Msgs) \cup ({"edit"} \X Edits)
          \cup ({"saved", "outbox"} \X Saves)

Fresh == [body |-> First, original |-> None, recalled |-> FALSE, delivered |-> 0]
Bodies == Edits \cup {First}

\* What a row holds, by its table; a private message is delivered or not.
MessageRows == [body : Bodies, original : Bodies \cup {None}, recalled : BOOLEAN,
                delivered : Nat]
Fits(r, v) == CASE r[1] = "message" -> /\ v \in MessageRows
                                      /\ r[2] \in Private => v.delivered <= 1
                [] r[1] = "edit" -> v \in Bodies \cup {None}
                [] OTHER -> v \in BOOLEAN

TypeOK ==
  /\ DOMAIN db = Rows /\ \A r \in Rows : Fits(r, db[r])
  /\ DOMAIN tx = Conns
  /\ \A c \in Conns : /\ DOMAIN tx[c] = {"open", "snap", "writes"}
                      /\ tx[c].open \in BOOLEAN
                      /\ DOMAIN tx[c].writes \subseteq Rows
                      /\ \A r \in DOMAIN tx[c].writes : Fits(r, tx[c].writes[r])
  /\ free \subseteq Conns
  /\ pc \in [Requests -> {"new", "again", "open", "read", "updated", "spoiled", "logged",
                          "unwound", "saved", "done", "failed"}]
  /\ kind \in [Edits -> {"private", "group"}]
  /\ conn \in [Requests -> Conns \cup {None}]
  /\ told \in [Msgs -> Nat]
  /\ screen \in [Msgs -> [body : Bodies, recalled : BOOLEAN]]
  /\ age \in 0..2 /\ faults \in 0..MaxFaults
  /\ shared \subseteq Requests /\ doubt \subseteq Requests
  /\ unpushed \subseteq Msgs /\ raced \subseteq Msgs

Init ==
  /\ db = [r \in Rows |-> CASE r[1] = "message" -> Fresh
                           [] r[1] = "edit" -> None
                           [] OTHER -> FALSE]
  /\ tx = [c \in Conns |-> Idle]
  /\ free = Conns
  /\ pc = [q \in Requests |-> "new"]
  /\ kind = [e \in Edits |-> "private"]
  /\ conn = [q \in Requests |-> None]
  /\ read = [q \in Edits \cup Toggles |-> None]
  /\ age = 0
  /\ screen = [m \in Msgs |-> [body |-> First, recalled |-> FALSE]]
  /\ told = [m \in Msgs |-> 0]
  /\ faults = 0
  /\ shared = {} /\ doubt = {} /\ unpushed = {} /\ raced = {}

Fault == faults < MaxFaults /\ faults' = faults + 1

Go(q, where) == pc' = [pc EXCEPT ![q] = where]
Drop(q) == conn' = [conn EXCEPT ![q] = None]
Doubt(q) == doubt' = doubt \cup {q}
Unpushed(m) == unpushed' = unpushed \cup {m}

\* The event loop of an instance runs one handler at a time; a worker takes a
\* recall or a save whenever.
MayRun(q) ==
  /\ pc[q] = "new" => Cardinality({p \in Requests : pc[p] # "new"}) < MaxRequests
  /\ q \in Loop => \A p \in Loop \ {q} : At(p) = At(q) => pc[p] \in {"new", "done", "failed"}

\* Who else has the connection: a guard that has not sent its ROLLBACK yet.
Sharers(c) == {p \in Requests : pc[p] = "unwound" /\ conn[p] = c}
Share(q, c) == shared' = IF Sharers(c) = {} THEN shared ELSE shared \cup Sharers(c) \cup {q}

Acquire(q, c) ==
  /\ MayRun(q)
  /\ c \in free \cap PoolOf(At(q))
  /\ Share(q, c)

\* A statement that failed: it was not executed, or its answer was lost.
Tried(c, r, v) == UNCHANGED <<db, tx>> \/ Write(c, r, v)

\* release() first, the destructor of the guard after it.
Unwind(q) ==
  /\ free' = free \cup {conn[q]}
  /\ Go(q, "unwound")

\* What is left when a request got nowhere: editMessage for the other table, the
\* Redis queue for a save, an error for the others.
GiveUp(q) ==
  IF q \in Edits /\ kind[q] = "private"
  THEN Go(q, "again") /\ kind' = [kind EXCEPT ![q] = "group"]
  ELSE Go(q, "failed") /\ UNCHANGED kind

\* acquire() times out on an empty pool, or the connection is dead, or BEGIN fails.
NoneFree(q) == free \cap PoolOf(At(q)) = {}

NoConnection(q) ==
  /\ pc[q] \in {"new", "again"} /\ MayRun(q)
  /\ (NoneFree(q) /\ UNCHANGED faults) \/ Fault
  /\ GiveUp(q)
  /\ UNCHANGED <<pool, conn, read, age, screen, told, ghosts>>

\* The guard of a transaction that was not committed.
GuardEnds(q) ==
  /\ pc[q] = "unwound"
  /\ Rollback(conn[q])
  /\ GiveUp(q) /\ Drop(q)
  /\ UNCHANGED <<free, read, age, screen, told, faults, ghosts>>

-------------------------------------------------------------------------------
(* MessageService.editMessage, called by handleEdit for the private table  *)
(* and then for the group table.                                           *)

Editable(e, row) ==
  /\ (On(e) \in Private) = (kind[e] = "private")
  /\ ~row.recalled
  /\ age < 2

\* Mutation: editMessage without a transaction.
EditBeginPlain(e) ==
  /\ pc[e] \in {"new", "again"}
  /\ \E c \in Conns :
       LET row == db[Row(On(e))] IN
       /\ Acquire(e, c)
       /\ \/ /\ Editable(e, row)
             /\ conn' = [conn EXCEPT ![e] = c]
             /\ read' = [read EXCEPT ![e] = [old |-> row.body, original |-> row.original]]
             /\ free' = free \ {c}
             /\ Go(e, "read") /\ UNCHANGED kind
          \/ /\ ~Editable(e, row)
             /\ GiveUp(e) /\ UNCHANGED <<conn, read, free>>
  /\ UNCHANGED <<db, tx, age, screen, told, faults, doubt, unpushed, raced>>

\* BEGIN and the SELECT; when that fails or finds nothing to edit, the function
\* returns with the transaction open.
EditBegin(e) ==
  /\ pc[e] \in {"new", "again"}
  /\ \E c \in Conns :
       /\ Acquire(e, c)
       /\ Begin(c)
       /\ conn' = [conn EXCEPT ![e] = c]
       /\ LET row == db'[Row(On(e))] IN
          \/ /\ Editable(e, row)
             /\ read' = [read EXCEPT ![e] = [old |-> row.body, original |-> row.original]]
             /\ free' = free \ {c}
             /\ Go(e, "read")
             /\ UNCHANGED faults
          \/ /\ (~Editable(e, row) /\ UNCHANGED faults) \/ Fault
             /\ Go(e, "unwound")
             /\ UNCHANGED <<free, read>>
  /\ UNCHANGED <<kind, age, screen, told, doubt, unpushed, raced>>

\* Mutation: original_body is the body before this edit.
EditedKeepsOld(e, row) == [row EXCEPT !.body = e, !.original = read[e].old]

\* The row as the UPDATE leaves it: the first edit keeps the body it replaces.
Edited(e, row) ==
  [row EXCEPT !.body = e,
              !.original = IF read[e].original = None THEN read[e].old ELSE @]

\* Mutation: UPDATE without recalled=0.
EditUpdateAnyway(e) ==
  LET c == conn[e]  row == Current(c)[Row(On(e))] IN
  /\ pc[e] = "read"
  /\ Unlocked(c, Row(On(e)))
  /\ Write(c, Row(On(e)), Edited(e, row))
  /\ Go(e, "updated")
  /\ UNCHANGED <<free, faults, kind, conn, read, age, screen, told, ghosts>>

EditUpdate(e) ==
  LET c == conn[e]  row == Current(c)[Row(On(e))] IN
  /\ pc[e] = "read"
  /\ Unlocked(c, Row(On(e)))
  /\ \/ /\ ~row.recalled
        /\ Write(c, Row(On(e)), Edited(e, row))
        /\ Go(e, "updated")
        /\ UNCHANGED <<free, faults>>
     \/ /\ row.recalled
        /\ Unwind(e)
        /\ UNCHANGED <<db, tx, faults>>
     \/ /\ Fault
        /\ Unwind(e)
        /\ IF row.recalled THEN UNCHANGED <<db, tx>> ELSE Tried(c, Row(On(e)), Edited(e, row))
  /\ UNCHANGED <<kind, conn, read, age, screen, told, ghosts>>

\* INSERT INTO message_edits.
EditLog(e) ==
  /\ pc[e] = "updated"
  /\ \/ /\ Write(conn[e], EditRow(e), read[e].old)
        /\ Go(e, "logged")
        /\ UNCHANGED <<free, faults>>
     \/ /\ Fault
        /\ Unwind(e)
        /\ Tried(conn[e], EditRow(e), read[e].old)
  /\ UNCHANGED <<kind, conn, read, age, screen, told, ghosts>>

\* Mutation: what tx.commit() returned is not looked at.
EditIgnoresCommit(e) ==
  /\ pc[e] = "logged"
  /\ \/ Commit(conn[e]) /\ UNCHANGED faults
     \/ Rollback(conn[e]) /\ Fault
  /\ free' = free \cup {conn[e]}
  /\ Go(e, "saved") /\ Drop(e)
  /\ UNCHANGED <<kind, read, age, screen, told, ghosts>>

\* Mutation: tx.commit() is forgotten.
EditForgetsCommit(e) ==
  /\ pc[e] = "logged"
  /\ Rollback(conn[e])
  /\ free' = free \cup {conn[e]}
  /\ Go(e, "saved") /\ Drop(e)
  /\ UNCHANGED <<kind, read, age, screen, told, faults, ghosts>>

\* When the answer of the COMMIT is lost the edit stands, its author is refused, and
\* nobody is pushed to.
EditCommit(e) ==
  /\ pc[e] = "logged"
  /\ \/ /\ Commit(conn[e])
        /\ free' = free \cup {conn[e]}
        /\ Go(e, "saved") /\ Drop(e)
        /\ UNCHANGED <<faults, doubt, unpushed>>
     \/ /\ Fault
        /\ Unwind(e)
        /\ UNCHANGED <<db, tx, conn, doubt, unpushed>>
     \/ /\ Fault
        /\ Commit(conn[e]) /\ Doubt(e) /\ Unpushed(On(e))
        /\ Unwind(e)
        /\ UNCHANGED conn
  /\ UNCHANGED <<kind, read, age, screen, told, shared, raced>>

\* The push to the other party or the members, by broadcastToUser: to sessions of this
\* instance.  When they cannot be looked up it goes to nobody.
EditPush(e) ==
  LET m == On(e) IN
  /\ pc[e] = "saved"
  /\ \/ /\ ~NoneFree(e) /\ At(e) = Seat(m)
        /\ screen' = [screen EXCEPT ![m].body = e]
        /\ UNCHANGED <<faults, unpushed>>
     \/ /\ ((NoneFree(e) \/ At(e) # Seat(m)) /\ UNCHANGED faults) \/ Fault
        /\ Unpushed(m)
        /\ UNCHANGED screen
  /\ Go(e, "done")
  /\ UNCHANGED <<pool, kind, conn, read, age, told, shared, doubt, raced>>

-------------------------------------------------------------------------------
(* handleRecall: one UPDATE, then the friends of the sender are told.      *)

Recallable(row) == ~row.recalled /\ age = 0

Recall(q) ==
  LET r == Row(On(q)) IN
  /\ pc[q] = "new"
  /\ \E c \in Conns :
       /\ Acquire(q, c) /\ Unlocked(c, r)
       /\ LET row == Current(c)[r] IN
          \/ /\ Recallable(row)
             /\ Write(c, r, [row EXCEPT !.recalled = TRUE])
             /\ Go(q, "saved")
             /\ UNCHANGED <<faults, doubt, unpushed>>
          \/ /\ (~Recallable(row) /\ UNCHANGED faults) \/ Fault
             /\ Go(q, "failed")
             /\ UNCHANGED <<db, tx, doubt, unpushed>>
          \/ /\ Recallable(row) /\ Fault   \* the answer is lost
             /\ Write(c, r, [row EXCEPT !.recalled = TRUE])
             /\ Go(q, "failed") /\ Doubt(q) /\ Unpushed(On(q))
  /\ UNCHANGED <<free, kind, conn, read, age, screen, told, raced>>

\* getFriends and broadcastToUser.
RecallPush(q) ==
  LET m == On(q) IN
  /\ pc[q] = "saved"
  /\ \/ /\ ~NoneFree(q) /\ At(q) = Seat(m)
        /\ screen' = IF m \in ToFriend THEN [screen EXCEPT ![m].recalled = TRUE] ELSE screen
        /\ UNCHANGED <<faults, unpushed>>
     \/ /\ ((NoneFree(q) \/ At(q) # Seat(m)) /\ UNCHANGED faults) \/ Fault
        /\ Unpushed(m)
        /\ UNCHANGED screen
  /\ Go(q, "done")
  /\ UNCHANGED <<pool, kind, conn, read, age, told, shared, doubt, raced>>

-------------------------------------------------------------------------------
(* The slow path of handlePrivateMessage: message and outbox row in one    *)
(* transaction, and the Redis queue when it fails.                         *)

SaveBegin(s) ==
  /\ pc[s] = "new"
  /\ \E c \in Conns :
       /\ Acquire(s, c)
       /\ Begin(c)
       /\ conn' = [conn EXCEPT ![s] = c]
       /\ free' = free \ {c}
  /\ Go(s, "open")
  /\ UNCHANGED <<kind, read, age, screen, told, faults, doubt, unpushed, raced>>

\* savePrivateMessageTx, then insertOutbox, whatever the first one returned.
SaveInsert(s) ==
  /\ \/ /\ pc[s] = "open"
        /\ \/ Write(conn[s], SaveRow(s), TRUE) /\ Go(s, "updated") /\ UNCHANGED faults
           \/ Fault /\ Tried(conn[s], SaveRow(s), TRUE) /\ Go(s, "spoiled")
        /\ UNCHANGED free
     \/ /\ pc[s] = "updated"
        /\ Write(conn[s], OutboxRow(s), TRUE)
        /\ Go(s, "logged")
        /\ UNCHANGED <<faults, free>>
     \/ /\ (pc[s] = "updated" /\ Fault) \/ (pc[s] = "spoiled" /\ UNCHANGED faults)
        /\ Tried(conn[s], OutboxRow(s), TRUE)
        /\ Unwind(s)
  /\ UNCHANGED <<kind, conn, read, age, screen, told, ghosts>>

\* The COMMIT; one whose answer is lost counts as failed.
SaveCommit(s) ==
  /\ pc[s] = "logged"
  /\ \/ /\ Commit(conn[s])
        /\ free' = free \cup {conn[s]}
        /\ Go(s, "done") /\ Drop(s)
        /\ UNCHANGED <<faults, doubt>>
     \/ /\ Fault
        /\ Unwind(s)
        /\ (UNCHANGED <<db, tx, doubt>>) \/ (Commit(conn[s]) /\ Doubt(s))
        /\ UNCHANGED conn
  /\ UNCHANGED <<kind, read, age, screen, told, shared, unpushed, raced>>

-------------------------------------------------------------------------------
(* toggleReaction and handleClientAck.  The update that is pushed after a  *)
(* toggle carries what a replica has by then and is left out.              *)

\* A SELECT that fails reads as an absent reaction.
ToggleRead(t) ==
  /\ pc[t] = "new"
  /\ \E c \in Conns :
       LET set == Selected(c)[Reaction(On(t))] IN
       /\ Acquire(t, c)
       /\ conn' = [conn EXCEPT ![t] = c]
       /\ free' = free \ {c}
       /\ \/ /\ read' = [read EXCEPT ![t] = set]
             /\ UNCHANGED <<faults, raced>>
          \/ /\ Fault
             /\ read' = [read EXCEPT ![t] = FALSE]
             /\ raced' = IF set THEN raced \cup {On(t)} ELSE raced
  /\ Go(t, "read")
  /\ UNCHANGED <<db, tx, kind, age, screen, told, doubt, unpushed>>

\* Mutation: a reaction is only ever added.
ToggleAdds(t) ==
  /\ pc[t] = "read"
  /\ Unlocked(conn[t], Reaction(On(t)))
  /\ Write(conn[t], Reaction(On(t)), TRUE)
  /\ Go(t, "done") /\ Drop(t)
  /\ free' = free \cup {conn[t]}
  /\ UNCHANGED <<faults, kind, read, age, screen, told, ghosts>>

\* DELETE or INSERT IGNORE.
ToggleWrite(t) ==
  /\ pc[t] = "read"
  /\ Unlocked(conn[t], Reaction(On(t)))
  /\ \/ /\ Write(conn[t], Reaction(On(t)), ~read[t])
        /\ Go(t, "done")
        /\ UNCHANGED <<faults, doubt>>
     \/ /\ Fault
        /\ Go(t, "failed")
        /\ \/ UNCHANGED <<db, tx, doubt>>
           \/ Write(conn[t], Reaction(On(t)), ~read[t]) /\ Doubt(t)
  /\ free' = free \cup {conn[t]} /\ Drop(t)
  /\ raced' = IF \E u \in Toggles \ {t} : On(u) = On(t) /\ pc[u] = "read"
              THEN raced \cup {On(t)} ELSE raced
  /\ UNCHANGED <<kind, read, age, screen, told, shared, unpushed>>

\* The recipient's ack: the first one of a private message, any of a group message.
Counts(m, row) == m \in Private => row.delivered = 0

AckUpdate(a) ==
  LET m == On(a) IN
  /\ pc[a] = "new"
  /\ \E c \in Conns :
       /\ Acquire(a, c) /\ Unlocked(c, Row(m))
       /\ LET row == Current(c)[Row(m)]
              counted == [row EXCEPT !.delivered = @ + 1] IN
          \/ /\ Counts(m, row)
             /\ Write(c, Row(m), counted)
             /\ conn' = [conn EXCEPT ![a] = c]
             /\ free' = free \ {c}
             /\ Go(a, "updated")
             /\ UNCHANGED <<faults, doubt>>
          \/ /\ (~Counts(m, row) /\ UNCHANGED faults) \/ Fault
             /\ Go(a, "failed")
             /\ UNCHANGED <<db, tx, conn, free, doubt>>
          \/ /\ Counts(m, row) /\ Fault   \* the answer is lost
             /\ Write(c, Row(m), counted)
             /\ Go(a, "failed") /\ Doubt(a)
             /\ UNCHANGED <<conn, free>>
  /\ UNCHANGED <<kind, read, age, screen, told, unpushed, raced>>

\* The SELECT, and the push to sessions that the sender has at this instance: a 1 for a
\* private message, the count for a group message.  When it fails nobody is told.
AckPush(a) ==
  LET m == On(a)
      count == IF m \in Private THEN 1 ELSE Selected(conn[a])[Row(m)].delivered IN
  /\ pc[a] = "updated"
  /\ \/ /\ told' = IF At(a) = SenderAt(m) THEN [told EXCEPT ![m] = count] ELSE told
        /\ UNCHANGED <<faults, doubt>>
     \/ /\ Fault /\ Doubt(a)
        /\ UNCHANGED told
  /\ free' = free \cup {conn[a]}
  /\ Go(a, "done") /\ Drop(a)
  /\ UNCHANGED <<db, tx, kind, read, age, screen, shared, unpushed, raced>>

\* Time passes the limit of a recall, and of an edit.
Older ==
  /\ age < 2
  /\ age' = age + 1
  /\ UNCHANGED <<pool, pc, kind, conn, read, screen, told, faults, ghosts>>

Next ==
  \/ Older
  \/ \E q \in Requests : NoConnection(q) \/ GuardEnds(q)
  \/ \E e \in Edits : \/ EditBegin(e) \/ EditUpdate(e) \/ EditLog(e)
                      \/ EditCommit(e) \/ EditPush(e)
  \/ \E q \in Recalls : Recall(q) \/ RecallPush(q)
  \/ \E s \in Saves : SaveBegin(s) \/ SaveInsert(s) \/ SaveCommit(s)
  \/ \E t \in Toggles : ToggleRead(t) \/ ToggleWrite(t)
  \/ \E a \in Acks : AckUpdate(a) \/ AckPush(a)

Spec == Init /\ [][Next]_vars

-------------------------------------------------------------------------------
Answered(q) == pc[q] \in {"saved", "done"}
Quiet(m) == \A q \in Requests \ Saves : On(q) = m => pc[q] \in {"new", "done", "failed"}

\* The sender's session is at the instance that handled the ack, and heard of it.
Heard(a) == At(a) = SenderAt(On(a)) /\ a \notin doubt

\* What a client was told is in MySQL: a recall that was confirmed, an edit that was
\* pushed, a save that was acked, no more deliveries than there were; and what failed
\* left nothing, unless the answer of its last statement or COMMIT was lost.  When the
\* sender could hear of every ack, it was told of all deliveries.  It takes a shared
\* connection to break it (MessageService.h:328, 384).
ToldStands ==
  /\ \A q \in Recalls \ shared : Answered(q) => db[Row(On(q))].recalled
  /\ \A e \in Edits \ shared :
       /\ Answered(e) => db[EditRow(e)] # None
       /\ pc[e] = "failed" /\ e \notin doubt => db[EditRow(e)] = None
  /\ \A s \in Saves \ shared :
       /\ pc[s] = "done" => db[SaveRow(s)] /\ db[OutboxRow(s)]
       /\ pc[s] = "failed" /\ s \notin doubt => ~db[SaveRow(s)] /\ ~db[OutboxRow(s)]
  /\ shared = {} => \A m \in Msgs :
       /\ told[m] <= db[Row(m)].delivered
       /\ Quiet(m) /\ (\A a \in Acks : On(a) = m /\ pc[a] # "new" => Heard(a))
            => told[m] = db[Row(m)].delivered

Audited(m) == db[Row(m)].body \in {First} \cup {e \in Edits : db[EditRow(e)] # None}
SaveWhole(s) == db[SaveRow(s)] = db[OutboxRow(s)]

\* A body that is not the first one has its row in message_edits, and a saved message
\* its row in the outbox, both ways, at every moment that another connection can see.
TransactionsWhole ==
  /\ \A m \in Msgs : (\A e \in shared \cap Edits : On(e) # m) => Audited(m)
  /\ \A s \in Saves \ shared : SaveWhole(s)

\* The same of a save with no exception for shared connections, as the head of
\* OutboxService.h has it: both rows in one transaction, and no outbox row without
\* the message.
OutboxTransaction == \A s \in Saves : SaveWhole(s)

\* original_body is the body that was sent, whichever edits ran at once.
OriginalIsFirst ==
  \A m \in Msgs : LET row == db[Row(m)] IN
                  row.original = IF row.body = First THEN None ELSE First

\* A recalled message is neither edited nor brought back.
RecallIsFinal ==
  [][\A m \in Msgs : db[Row(m)].recalled =>
       db'[Row(m)].recalled /\ db'[Row(m)].body = db[Row(m)].body]_vars

\* When no request on a message is under way, its recipient sees what MySQL has, but
\* for a change that was not pushed: the recipient was at another instance, the lookup
\* failed, or the answer of the COMMIT was lost; and for a recall of somebody who is
\* not a friend (ChatServer.h:1553, 2107, 2201).
ScreenFollows ==
  \A m \in Msgs \ unpushed : Quiet(m) /\ shared = {} =>
    /\ screen[m].body = db[Row(m)].body
    /\ m \in ToFriend => screen[m].recalled = db[Row(m)].recalled

\* A reaction is set after an odd number of clicks that took effect, answered or not,
\* unless two of them overlapped or one could not read (MessageService.h:224).
TogglesExplained ==
  \A m \in Msgs \ raced : Quiet(m) /\ shared = {} =>
    db[Reaction(m)] =
      (Cardinality({t \in Toggles : On(t) = m /\ (pc[t] = "done" \/ t \in doubt)}) % 2 = 1)

\* ChatServer.h:2127: an edit that succeeded is pushed to the other party or to all
\* members who are online.
EditReaches ==
  \A e \in Edits : pc[e] = "done" => screen[On(e)].body # First
===============================================================================
